---- MODULE Spec2Model ----
(***************************************************************************)
(* The inventory state machine of the ZOOL412 autostation lab economy:     *)
(* the single Inventory row, the Order table of scheduled effects, and the *)
(* operations of db/user_actions.py, db/admin_actions.py and               *)
(* db/user_experiments.py that read and write them.                        *)
(*                                                                         *)
(* Representation.  The Inventory row is a function from the column names  *)
(* of db/models/inventory.py to integers (the source addresses the columns *)
(* by name with getattr/setattr).  Credits are whole chuan.  The animal    *)
(* columns hold fractional animals once an experiment has drawn FTEs       *)
(* (shifts / 30.0), so they are kept in thirtieths of an animal:           *)
(* a column value of 40 animals is 40 * FTE_SHIFTS.  The ORM's column      *)
(* typing (the enum coercion of Order.article) is not modelled.            *)
(***************************************************************************)
EXTENDS Integers, Sequences, FiniteSets, TLC

(***************************************************************************)
(* Bounds of the model.                                                    *)
(***************************************************************************)
\* ticks explored in one run
MaxWeeks == 3
\* user operation calls explored in one run from a seeded database
MaxCalls == 2
\* user operation calls explored in one run from the empty database
MaxSetupCalls == 1
\* boosts of one role that a worn ledger has behind it
MaxPastBoosts == 10
\* boosts made on a worn ledger
MaxBoosts == 1
\* hunts of the current week that a worn ledger has behind it
MaxPastHunts == 10
\* rows of the Order table that a run starts with
MaxQueue == 2

(***************************************************************************)
(* Column names.                                                           *)
(***************************************************************************)
ta_fields == <<"ta_saltos_shifts", "ta_nitro_shifts", "ta_helene_shifts", "ta_carnival_shifts">>

TA_SHIFTS == {ta_fields[k] : k \in 1..4}

species_list == <<"animals_51u6", "animals_51u6_m", "animals_c248_s", "animals_c248_b">>

AnimalSpecies == {species_list[k] : k \in 1..4}

ArticleEnum == {"xatty_cartridge", "zeropoint_cartridge", "nc_pk1_cartridge", "smart_filament_s_cartridge", "smart_filament_m_cartridge", "smart_filament_l_cartridge", "mamr_reel_cartrdige", "dupont_cartridge", "juice"}

\* the member names of ArticleEnum
ArticleEnumNames == {"XATTY_CARTRIDGE", "ZEROPOINT_CARTRIDGE", "NC_PK1_CARTRIDGE", "SMART_FILAMENT_S_CARTRIDGE", "SMART_FILAMENT_M_CARTRIDGE", "SMART_FILAMENT_L_CARTRIDGE", "MAMR_REEL_CARTRDIGE", "DUPONT_CARTRIDGE", "JUICE"}

AcquisitionType == {"quick", "standard", "smart"}

\* f"{species}_available", f"{species}_max"
available_field(species) ==
    CASE species = "animals_51u6" -> "animals_51u6_available"
      [] species = "animals_51u6_m" -> "animals_51u6_m_available"
      [] species = "animals_c248_s" -> "animals_c248_s_available"
      [] species = "animals_c248_b" -> "animals_c248_b_available"
      [] OTHER -> "no_such_column"

animal_max_field(species) ==
    CASE species = "animals_51u6" -> "animals_51u6_max"
      [] species = "animals_51u6_m" -> "animals_51u6_m_max"
      [] species = "animals_c248_s" -> "animals_c248_s_max"
      [] species = "animals_c248_b" -> "animals_c248_b_max"
      [] OTHER -> "no_such_column"

\* ta_field.replace("_shifts", "_shifts_max") on the column names
shifts_max_field(field) ==
    CASE field = "ta_saltos_shifts" -> "ta_saltos_shifts_max"
      [] field = "ta_nitro_shifts" -> "ta_nitro_shifts_max"
      [] field = "ta_helene_shifts" -> "ta_helene_shifts_max"
      [] field = "ta_carnival_shifts" -> "ta_carnival_shifts_max"
      [] field \in {"ta_saltos_shifts_max", "ta_nitro_shifts_max", "ta_helene_shifts_max", "ta_carnival_shifts_max"} -> "no_such_column"
      [] OTHER -> field

\* ta_field.replace("_shifts", "_risk") on the column names
risk_field(field) ==
    CASE field = "ta_saltos_shifts" -> "ta_saltos_risk"
      [] field = "ta_nitro_shifts" -> "ta_nitro_risk"
      [] field = "ta_helene_shifts" -> "ta_helene_risk"
      [] field = "ta_carnival_shifts" -> "ta_carnival_risk"
      [] field \in {"ta_saltos_shifts_max", "ta_nitro_shifts_max", "ta_helene_shifts_max", "ta_carnival_shifts_max"} -> "no_such_column"
      [] OTHER -> field

TA_MAX == {shifts_max_field(f) : f \in TA_SHIFTS}

TA_RISK == {risk_field(f) : f \in TA_SHIFTS}

ANIMAL_AVAILABLE == {available_field(s) : s \in AnimalSpecies}

ANIMAL_MAX == {animal_max_field(s) : s \in AnimalSpecies}

CARTRIDGES == ArticleEnum \ {"juice"}

\* the columns of the Inventory table
Inventory == {"credits", "juice"} \cup TA_SHIFTS \cup TA_MAX \cup TA_RISK \cup ANIMAL_AVAILABLE \cup ANIMAL_MAX \cup CARTRIDGES

\* session.query(Inventory).first() on an empty table
NoInventory == [f \in {} |-> 0]

\* one animal is 30 shifts (1.0 FTE); animal columns are kept in 1/30 animal
FTE_SHIFTS == 30

(***************************************************************************)
(* Arithmetic of the source.                                               *)
(***************************************************************************)
Min(a, b) == IF a < b THEN a ELSE b

\* Python round() of the exact quotient num/den (den > 0): ties go to even
round(num, den) ==
    LET q == num \div den
        r == num % den
    IN  IF 2 * r > den \/ (2 * r = den /\ q % 2 = 1) THEN q + 1 ELSE q

\* math.ceil(num / den), den > 0
ceil(num, den) == (num + den - 1) \div den

RECURSIVE SumShifts(_, _)
\* sum(getattr(inventory, f) for f in ta_fields[k..4])
SumShifts(i, k) == IF k > 4 THEN 0 ELSE i[ta_fields[k]] + SumShifts(i, k + 1)

total_shifts(i) == SumShifts(i, 1)

(***************************************************************************)
(* Seed data.                                                              *)
(***************************************************************************)
\* AdminActions.initialize_inventory
initial_inventory ==
    [f \in Inventory |->
        CASE f = "credits" -> 2000000
          [] f = "juice" -> 3
          [] f \in TA_SHIFTS -> 30
          [] f \in TA_MAX -> 30
          [] f \in TA_RISK -> 0
          [] f \in {"animals_51u6_max", "animals_51u6_available"} -> 40 * FTE_SHIFTS
          [] f \in ANIMAL_AVAILABLE \cup ANIMAL_MAX -> (-1) * FTE_SHIFTS
          [] OTHER -> 1]

\* AdminActions.initialize_item_catalog: item_key -> chuan_cost, wait_weeks
item_catalog ==
    [a \in ArticleEnum |->
        IF a = "juice" THEN [chuan_cost |-> 10000, wait_weeks |-> 0]
        ELSE [chuan_cost |-> 70000, wait_weeks |-> 1]]

NoCatalog == [a \in {} |-> 0]

\* AdminActions.create_test_users: four rows, keys 1..4
test_users == 1..4

\* price_factor is in hundredths (2.00, 1.00, 0.80)
ACQUISITION_RULES ==
    [t \in AcquisitionType |->
        CASE t = "quick" -> [cooldown |-> 1, price_factor |-> 200]
          [] t = "standard" -> [cooldown |-> 2, price_factor |-> 100]
          [] t = "smart" -> [cooldown |-> 3, price_factor |-> 80]]

HUNTING_RULES ==
    [s \in AnimalSpecies |->
        CASE s = "animals_51u6" -> [cooldown |-> 0, method |-> "gaussian"]
          [] s = "animals_51u6_m" -> [cooldown |-> 1, method |-> "gaussian"]
          [] s = "animals_c248_s" -> [cooldown |-> 1, method |-> "colony"]
          [] s = "animals_c248_b" -> [cooldown |-> 0, method |-> "uniform"]]

(***************************************************************************)
(* State.                                                                  *)
(***************************************************************************)
VARIABLES
    inv,          \* the session's Inventory object (NoInventory: no row)
    orders,       \* the session's view of the Order table, in key order
    experiments,  \* the session's view of the Experiment table
    db,           \* what the last session.commit() persisted: [inv, orders, experiments]
    catalog,      \* the ItemCatalog table
    users,        \* the keys of the User table
    pc,           \* position inside advance_one_week ("idle": not running)
    week,         \* history: number of completed ticks
    budget,       \* user operation calls the run may still make
    fatal,        \* history: roles whose boost ended in a fatality
    result        \* history: the last operation and how it ended

vars == <<inv, orders, experiments, db, catalog, users, pc, week, budget, fatal, result>>

\* how an operation ended; target and arg name its inputs or outcome
Outcome(op, status, target, arg) == [op |-> op, status |-> status, target |-> target, arg |-> arg]

\* An Order row.  created, lead, applied and applied_tick are history fields:
\* the tick count at creation, the initial wait_weeks, how often the row's
\* effect has been dispatched, and the tick that dispatched it last.
Order(article, value, wait_weeks, is_effect, inventory_field, event_type, now) ==
    [article |-> article, value |-> value, wait_weeks |-> wait_weeks,
     is_effect |-> is_effect, inventory_field |-> inventory_field,
     event_type |-> event_type,
     created |-> now, lead |-> wait_weeks, applied |-> 0, applied_tick |-> now]

\* session.commit()
commit == db' = [inv |-> inv', orders |-> orders', experiments |-> experiments']

\* an operation that raises or returns before it wrote anything
NoWrite == UNCHANGED <<inv, orders, experiments, db>>

Setup == UNCHANGED <<catalog, users>>

History == UNCHANGED <<week, fatal>>

\* one call of a user operation
Call == budget > 0 /\ budget' = budget - 1

(***************************************************************************)
(* AdminActions: seeding.                                                  *)
(***************************************************************************)
\* The row that query(Inventory).first() returns is the first one added, so
\* only the first call is modelled.
initialize_inventory ==
    /\ pc = "idle"
    /\ inv = NoInventory
    /\ inv' = initial_inventory
    /\ UNCHANGED <<orders, experiments, catalog, users, pc, week, budget, fatal>>
    /\ commit
    /\ result' = Outcome("initialize_inventory", "ok", "-", "-")

create_test_users ==
    /\ pc = "idle"
    /\ users = {}
    /\ users' = test_users
    /\ result' = Outcome("create_test_users", "ok", "-", "-")
    /\ UNCHANGED <<inv, orders, experiments, db, catalog, pc, week, budget, fatal>>

initialize_item_catalog ==
    /\ pc = "idle"
    /\ catalog = NoCatalog
    /\ catalog' = item_catalog
    /\ result' = Outcome("initialize_item_catalog", "ok", "-", "-")
    /\ UNCHANGED <<inv, orders, experiments, db, users, pc, week, budget, fatal>>

(***************************************************************************)
(* UserActions.place_order                                                 *)
(***************************************************************************)
\* a variant that charges the catalog price whatever the tier
order_cost_flat(chuan_cost, acquisition_type) == chuan_cost

\* cost = catalog_item.chuan_cost * rules["price_factor"]
order_cost(chuan_cost, acquisition_type) ==
    (chuan_cost * ACQUISITION_RULES[acquisition_type].price_factor) \div 100

\* a variant that never refuses
insufficient_credits_never(credits, cost) == FALSE

\* if inventory.credits < cost: raise
insufficient_credits(credits, cost) == credits < cost

\* a variant that writes the deduction before it checks
deduct_order_cost_first(i, cost) ==
    [inv |-> [i EXCEPT !["credits"] = @ - cost],
     err |-> IF insufficient_credits(i["credits"], cost)
             THEN "ValueError: insufficient credits" ELSE "none"]

\* the credit check and the deduction: the Inventory object as the raise or
\* the deduction leaves it
deduct_order_cost(i, cost) ==
    IF insufficient_credits(i["credits"], cost)
    THEN [inv |-> i, err |-> "ValueError: insufficient credits"]
    ELSE [inv |-> [i EXCEPT !["credits"] = @ - cost], err |-> "none"]

\* a variant that clears the table before it logs the order
place_order_replace(user_id, article, acquisition_type) ==
    /\ pc = "idle"
    /\ Call
    /\ Setup /\ UNCHANGED <<pc, week, fatal, experiments>>
    /\ inv # NoInventory /\ catalog # NoCatalog
    /\ inv' = inv
    /\ orders' = <<Order(article, 0, ACQUISITION_RULES[acquisition_type].cooldown, FALSE, "None", "None", week)>>
    /\ commit
    /\ result' = Outcome("place_order", "ok", article, acquisition_type)

place_order(user_id, article, acquisition_type) ==
    /\ pc = "idle"
    /\ Call
    /\ Setup /\ History /\ UNCHANGED pc
    /\ UNCHANGED experiments
    /\ IF user_id \notin users
       THEN /\ NoWrite
            /\ result' = Outcome("place_order", "ValueError: user not found", "-", "-")
       ELSE IF article \notin DOMAIN catalog
       THEN /\ NoWrite
            /\ result' = Outcome("place_order", "ValueError: article not in catalog", "-", "-")
       ELSE LET cost == order_cost(catalog[article].chuan_cost, acquisition_type)
                wait_weeks == ACQUISITION_RULES[acquisition_type].cooldown
            IN  IF inv = NoInventory
                THEN /\ NoWrite
                     /\ result' = Outcome("place_order", "RuntimeError: inventory not initialized", "-", "-")
                ELSE LET paid == deduct_order_cost(inv, cost)
                     IN  IF paid.err # "none"
                         THEN \* the raise leaves the function before add and commit
                              /\ inv' = paid.inv
                              /\ UNCHANGED <<orders, db>>
                              /\ result' = Outcome("place_order", paid.err, article, acquisition_type)
                         ELSE /\ inv' = paid.inv
                              /\ orders' = Append(orders, Order(article, cost, wait_weeks, FALSE, "None", "None", week))
                              /\ commit
                              /\ result' = Outcome("place_order", "ok", article, acquisition_type)

(***************************************************************************)
(* UserActions.administer_juiz                                             *)
(***************************************************************************)
\* random.randint(1, 100): its two ends and the rolls on either side of the
\* risks 10 and 20
Rolls == {1, 10, 11, 20, 21, 100}

\* random.randint(1, 100)
Dice == 1..100

\* a variant that accepts every role
juiz_eligible_any(current_max) == TRUE

\* a variant that also accepts a ceiling a boost has raised
juiz_eligible_raised(current_max) == 0 < current_max /\ current_max <= 54

\* if not (0 < current_max <= 30): raise
juiz_eligible(current_max) == 0 < current_max /\ current_max <= 30

\* a variant that survives a roll equal to the risk
juiz_survives_tie(current_risk, dice) == current_risk = 0 \/ dice >= current_risk

\* if current_risk == 0.0 or dice > current_risk
juiz_survives(current_risk, dice) == current_risk = 0 \/ dice > current_risk

\* a variant that doubles the ceiling
juiz_new_max_double(current_max) == current_max * 2

\* new_max = round(current_max * 1.8)
juiz_new_max(current_max) == round(current_max * 18, 10)

\* a variant whose risk goes up without a cap
juiz_boost_uncapped(i, ta_field) ==
    [i EXCEPT ![shifts_max_field(ta_field)] = juiz_new_max(@),
              ![ta_field] = @ + juiz_new_max(i[shifts_max_field(ta_field)]) - i[shifts_max_field(ta_field)],
              ![risk_field(ta_field)] = @ + 20]

\* the survival branch: max, shifts and risk of the role
juiz_boost(i, ta_field) ==
    LET max_field == shifts_max_field(ta_field)
        new_max == juiz_new_max(i[max_field])
        offset == new_max - i[max_field]
    IN  [i EXCEPT ![max_field] = new_max,
                  ![ta_field] = i[ta_field] + offset,
                  ![risk_field(ta_field)] = Min(i[risk_field(ta_field)] + 10, 100)]

\* a variant that zeroes the ceiling only
juiz_fatality_max_only(i, ta_field) == [i EXCEPT ![shifts_max_field(ta_field)] = 0]

\* the fatality branch
juiz_fatality(i, ta_field) ==
    [i EXCEPT ![shifts_max_field(ta_field)] = 0, ![ta_field] = 0]

\* STEPS 4 and 5: the branch the roll selects, then juice -= 1
juiz_outcome(i, ta_field, dice) ==
    LET after == IF juiz_survives(i[risk_field(ta_field)], dice) THEN juiz_boost(i, ta_field)
                 ELSE juiz_fatality(i, ta_field)
    IN  [after EXCEPT !["juice"] = @ - 1]

\* a variant that logs the boost as a plain order
juiz_order_plain(ta_field, now) == Order("JUICE", 0, 1, FALSE, ta_field, "juiz", now)

\* STEP 6: the logged Order
juiz_order(ta_field, now) == Order("JUICE", 0, 1, TRUE, ta_field, "juiz", now)

administer_juiz(ta_field, dice) ==
    /\ pc = "idle"
    /\ Call
    /\ Setup /\ UNCHANGED <<pc, week, experiments>>
    /\ IF inv = NoInventory
       THEN /\ NoWrite /\ UNCHANGED fatal
            /\ result' = Outcome("administer_juiz", "RuntimeError: inventory not initialized", "-", "-")
       ELSE IF inv["juice"] < 1
       THEN /\ NoWrite /\ UNCHANGED fatal
            /\ result' = Outcome("administer_juiz", "ValueError: no juice", ta_field, "-")
       ELSE IF ~juiz_eligible(inv[shifts_max_field(ta_field)])
       THEN /\ NoWrite /\ UNCHANGED fatal
            /\ result' = Outcome("administer_juiz", "ValueError: cannot be juiced", ta_field, "-")
       ELSE LET survives == juiz_survives(inv[risk_field(ta_field)], dice)
            IN  /\ inv' = juiz_outcome(inv, ta_field, dice)
                /\ fatal' = IF survives THEN fatal ELSE fatal \cup {ta_field}
                /\ result' = Outcome("administer_juiz", "ok", ta_field,
                                     IF survives THEN "boost" ELSE "fatality")
                /\ orders' = Append(orders, juiz_order(ta_field, week))
                /\ commit

(***************************************************************************)
(* UserActions.collect_animals                                             *)
(***************************************************************************)
\* the fixed cost of a hunt
HUNT_SHIFTS == 12

RECURSIVE greedy(_, _, _)
RECURSIVE greedy_first(_, _, _)
\* a variant that takes the whole cost from the first role that has any shifts
greedy_first(i, remaining, k) ==
    IF k > 4 THEN i
    ELSE IF i[ta_fields[k]] > 0 THEN [i EXCEPT ![ta_fields[k]] = @ - remaining]
    ELSE greedy_first(i, remaining, k + 1)

\* the greedy loop over ta_fields[k..4]: each role gives min(shifts, remaining)
greedy(i, remaining, k) ==
    IF k > 4 THEN i
    ELSE LET current == i[ta_fields[k]]
             used == Min(current, remaining)
             after == [i EXCEPT ![ta_fields[k]] = current - used]
         IN  IF remaining - used <= 0 THEN after
             ELSE greedy(after, remaining - used, k + 1)

\* the yields the three methods can draw.  The gaussian draw,
\* max(3, min(round(gauss(12, 5)), 30)), ranges over 3..30: its two ends
\* stand for it.
hunt_yields(method) ==
    CASE method = "gaussian" -> {3, 30}
      [] method = "colony" -> {12, 0}
      [] method = "uniform" -> 0..3

\* a variant that leaves the ceiling behind
hunt_direct_available(i, species, amount) ==
    [i EXCEPT ![available_field(species)] = @ + amount * FTE_SHIFTS]

\* cooldown == 0: the yield goes to available and max at once
hunt_direct(i, species, amount) ==
    [i EXCEPT ![available_field(species)] = @ + amount * FTE_SHIFTS,
              ![animal_max_field(species)] = @ + amount * FTE_SHIFTS]

\* cooldown > 0: the scheduled delivery
hunt_order(species, amount, cooldown, now) ==
    Order(species, amount, cooldown, TRUE, available_field(species), "hunt", now)

collect_animals(species) ==
    /\ pc = "idle"
    /\ Call
    /\ Setup /\ UNCHANGED <<pc, week, fatal, experiments>>
    /\ IF inv = NoInventory
       THEN /\ NoWrite
            /\ result' = Outcome("collect_animals", "RuntimeError: inventory not initialized", "-", "-")
       ELSE IF total_shifts(inv) < HUNT_SHIFTS
       THEN /\ NoWrite
            /\ result' = Outcome("collect_animals", "not enough shifts", "-", "-")
       ELSE \E amount \in hunt_yields(HUNTING_RULES[species].method) :
                 LET paid == greedy(inv, HUNT_SHIFTS, 1)
                     cooldown == HUNTING_RULES[species].cooldown
                 IN  /\ result' = Outcome("collect_animals", "ok", species, amount)
                     /\ IF amount = 0
                        THEN \* returns before session.commit()
                             /\ inv' = paid
                             /\ UNCHANGED <<orders, db>>
                        ELSE IF cooldown = 0
                        THEN /\ inv' = hunt_direct(paid, species, amount)
                             /\ UNCHANGED orders
                             /\ commit
                        ELSE /\ inv' = paid
                             /\ orders' = Append(orders, hunt_order(species, amount, cooldown, week))
                             /\ commit

\* leaving the "with Session(engine)" block that ran an operation: what was
\* not committed is discarded
session_close ==
    /\ pc = "idle"
    /\ <<inv, orders, experiments>> # <<db.inv, db.orders, db.experiments>>
    /\ inv' = db.inv
    /\ orders' = db.orders
    /\ experiments' = db.experiments
    /\ result' = Outcome("session_close", "ok", "-", "-")
    /\ UNCHANGED <<db, catalog, users, pc, week, budget, fatal>>

(***************************************************************************)
(* AdminActions.advance_one_week                                           *)
(***************************************************************************)
\* the baseline STEP 1 writes
WEEKLY_SHIFTS == 30

\* a column value of one unit: animal columns are kept in 1/30 animal
unit(field) == IF field \in ANIMAL_AVAILABLE \cup ANIMAL_MAX THEN FTE_SHIFTS ELSE 1

\* a variant that leaves the shifts as they are
reset_shifts_keep(i) == i

\* a variant that restores every role to its ceiling
reset_shifts_to_max(i) ==
    [f \in DOMAIN i |-> IF f \in TA_SHIFTS THEN i[shifts_max_field(f)] ELSE i[f]]

\* STEP 1: every role's shifts := 30
reset_shifts(i) == [f \in DOMAIN i |-> IF f \in TA_SHIFTS THEN WEEKLY_SHIFTS ELSE i[f]]

\* a variant that leaves the availability as it is
reset_animals_keep(i) == i

\* STEP 2: every species' available := its max
reset_animals(i) ==
    [f \in DOMAIN i |->
        IF \E s \in AnimalSpecies : f = available_field(s)
        THEN i[animal_max_field(CHOOSE s \in AnimalSpecies : f = available_field(s))]
        ELSE i[f]]

\* a variant that adds the order's value
apply_order_effect_value(order, i) ==
    IF order.article \in DOMAIN i
    THEN [inv |-> [i EXCEPT ![order.article] = @ + order.value], err |-> "none"]
    ELSE [inv |-> i, err |-> "none"]

\* a variant that charges the order's value at delivery
apply_order_effect_charged(order, i) ==
    IF order.article \in DOMAIN i
    THEN [inv |-> [i EXCEPT ![order.article] = @ + 1, !["credits"] = @ - order.value], err |-> "none"]
    ELSE [inv |-> i, err |-> "none"]

\* _apply_order_effect: +1 on the column named by the article
apply_order_effect(order, i) ==
    IF order.article \in DOMAIN i
    THEN [inv |-> [i EXCEPT ![order.article] = @ + 1], err |-> "none"]
    ELSE [inv |-> i, err |-> "none"]

\* a variant that takes 0.3 of the shifts instead of the ceiling
handle_juiz_event_shifts(order, i) ==
    [inv |-> [i EXCEPT ![order.inventory_field] = round(@ * 3, 10)], err |-> "none"]

\* a variant that lowers the ceiling along with the shifts
handle_juiz_event_ceiling(order, i) ==
    LET new_shifts == round(i[shifts_max_field(order.inventory_field)] * 3, 10)
    IN  [inv |-> [i EXCEPT ![order.inventory_field] = new_shifts,
                           ![shifts_max_field(order.inventory_field)] = new_shifts],
         err |-> "none"]

\* _handle_juiz_event: shifts := round(shifts_max * 0.3)
handle_juiz_event(order, i) ==
    LET field == order.inventory_field
    IN  IF field = "None" \/ field \notin DOMAIN i
        THEN [inv |-> i, err |-> "none"]
        ELSE LET max_field == shifts_max_field(field)
                 current_max == IF max_field \in DOMAIN i THEN i[max_field] ELSE 30
                 new_shifts == round(current_max * 3, 10)
             IN  [inv |-> [i EXCEPT ![field] = new_shifts], err |-> "none"]

\* a variant that overwrites the column with the delivery
handle_hunting_event_set(order, i) ==
    [inv |-> [i EXCEPT ![order.inventory_field] = order.value * unit(order.inventory_field)], err |-> "none"]

\* _handle_hunting_event: the column += int(order.value)
handle_hunting_event(order, i) ==
    LET field == order.inventory_field
    IN  IF field = "None"
        THEN [inv |-> i, err |-> "TypeError: attribute name must be string"]
        ELSE IF field \notin DOMAIN i
        THEN [inv |-> i, err |-> "none"]
        ELSE [inv |-> [i EXCEPT ![field] = @ + order.value * unit(field)], err |-> "none"]

\* _apply_event_effect: dispatch on event_type
apply_event_effect(order, i) ==
    IF order.event_type = "juiz" THEN handle_juiz_event(order, i)
    ELSE IF order.event_type = "hunt" THEN handle_hunting_event(order, i)
    ELSE [inv |-> i, err |-> "none"]

\* filter(Order.wait_weeks >= 0)
selected(order) == order.wait_weeks >= 0

\* a variant that dispatches every row that has run out
matures_again(order) == order.wait_weeks <= 0

\* a variant that dispatches one tick early
matures_early(order) == order.wait_weeks = 1

\* if order.wait_weeks == 0, after the decrement
matures(order) == order.wait_weeks = 0

RECURSIVE mature(_, _, _, _)
\* STEP 3, the loop over the selected rows from key k on, in tick number t
mature(i, os, k, t) ==
    IF k > Len(os) THEN [inv |-> i, orders |-> os, err |-> "none"]
    ELSE IF ~selected(os[k]) THEN mature(i, os, k + 1, t)
    ELSE LET order == [os[k] EXCEPT !.wait_weeks = @ - 1]
         IN  IF matures(order)
             THEN LET r == IF order.is_effect THEN apply_event_effect(order, i)
                           ELSE apply_order_effect(order, i)
                      done == [order EXCEPT !.applied = @ + 1, !.applied_tick = t]
                  IN  IF r.err # "none"
                      THEN [inv |-> r.inv, orders |-> [os EXCEPT ![k] = order], err |-> r.err]
                      ELSE mature(r.inv, [os EXCEPT ![k] = done], k + 1, t)
             ELSE mature(i, [os EXCEPT ![k] = order], k + 1, t)

\* a variant that keeps the ceilings
update_shifts_max_keep(i) == i

\* STEP 4: every role's shifts_max := its shifts
update_shifts_max(i) ==
    [f \in DOMAIN i |->
        IF \E ta \in TA_SHIFTS : f = shifts_max_field(ta)
        THEN i[CHOOSE ta \in TA_SHIFTS : f = shifts_max_field(ta)]
        ELSE i[f]]

\* a variant that keeps the animal ceilings
update_animal_max_keep(i) == i

\* STEP 5: every species' max := its available
update_animal_max(i) ==
    [f \in DOMAIN i |->
        IF \E s \in AnimalSpecies : f = animal_max_field(s)
        THEN i[available_field(CHOOSE s \in AnimalSpecies : f = animal_max_field(s))]
        ELSE i[f]]

TickFrame == UNCHANGED <<experiments, catalog, users, budget, fatal>>

advance_step1 ==
    /\ pc = "idle"
    /\ week < MaxWeeks
    /\ TickFrame /\ UNCHANGED <<orders, db, week>>
    /\ IF inv = NoInventory
       THEN /\ UNCHANGED <<inv, pc>>
            /\ result' = Outcome("advance_one_week", "RuntimeError: inventory not initialized", "-", "-")
       ELSE /\ inv' = reset_shifts(inv)
            /\ pc' = "step1"
            /\ result' = Outcome("advance_one_week", "step1", "-", "-")

advance_step2 ==
    /\ pc = "step1"
    /\ inv' = reset_animals(inv)
    /\ pc' = "step2"
    /\ result' = Outcome("advance_one_week", "step2", "-", "-")
    /\ TickFrame /\ UNCHANGED <<orders, db, week>>

advance_step3 ==
    /\ pc = "step2"
    /\ LET r == mature(inv, orders, 1, week + 1)
       IN  /\ inv' = r.inv
           /\ orders' = r.orders
           /\ IF r.err = "none"
              THEN /\ pc' = "step3"
                   /\ result' = Outcome("advance_one_week", "step3", "-", "-")
              ELSE \* the exception leaves advance_one_week before the commit
                   /\ pc' = "idle"
                   /\ result' = Outcome("advance_one_week", r.err, "-", "-")
    /\ TickFrame /\ UNCHANGED <<db, week>>

advance_step4 ==
    /\ pc = "step3"
    /\ inv' = update_shifts_max(inv)
    /\ pc' = "step4"
    /\ result' = Outcome("advance_one_week", "step4", "-", "-")
    /\ TickFrame /\ UNCHANGED <<orders, db, week>>

advance_step5 ==
    /\ pc = "step4"
    /\ inv' = update_animal_max(inv)
    /\ UNCHANGED orders
    /\ TickFrame
    /\ commit
    /\ pc' = "idle"
    /\ week' = week + 1
    /\ result' = Outcome("advance_one_week", "ok", "-", "-")

\* the five steps of one call, composed
advance_one_week(i, os, t) ==
    LET m == mature(reset_animals(reset_shifts(i)), os, 1, t)
    IN  [inv |-> update_animal_max(update_shifts_max(m.inv)), orders |-> m.orders]

(***************************************************************************)
(* UserExperiments: shared sub-routines                                    *)
(***************************************************************************)
check_ta_shifts_required(i, required) == total_shifts(i) >= required

deduct_ta_shifts(i, required) == greedy(i, required, 1)

\* available >= shifts_required / 30.0, in thirtieths of an animal
check_animal_required(i, species, shifts_required) ==
    /\ available_field(species) \in DOMAIN i
    /\ i[available_field(species)] >= shifts_required

\* a variant that takes the animals from the ceiling as well
deduct_animals_both(i, species, shifts_required) ==
    [inv |-> [i EXCEPT ![available_field(species)] = @ - shifts_required,
                       ![animal_max_field(species)] = @ - shifts_required],
     err |-> "none"]

\* deduct_animals: raises on an unknown species column
deduct_animals(i, species, shifts_required) ==
    IF available_field(species) \notin DOMAIN i
    THEN [inv |-> i, err |-> "ValueError: invalid species field"]
    ELSE [inv |-> [i EXCEPT ![available_field(species)] = @ - shifts_required], err |-> "none"]

\* deduct_credits: refuses when credits < amount (no caller in the repository)
deduct_credits(i, amount) ==
    IF i["credits"] < amount THEN [inv |-> i, ok |-> FALSE]
    ELSE [inv |-> [i EXCEPT !["credits"] = @ - amount], ok |-> TRUE]

\* the item_key calculate_ocs_cost looks up
OCS_KEY == "kpi_ocs_job"

\* calculate_ocs_cost for unit_count = num/den: jobs = ceil(unit_count /
\* units_per_job), cost = jobs * catalog price.  ArticleEnum.KPI_OCS_JOB is
\* evaluated first and raises AttributeError when the enum has no such member.
calculate_ocs_cost(cat, num, den, units_per_job) ==
    LET jobs == ceil(num, den * units_per_job)
    IN  IF "KPI_OCS_JOB" \notin ArticleEnumNames
        THEN [err |-> "AttributeError: KPI_OCS_JOB", jobs |-> jobs, cost |-> 0]
        ELSE IF OCS_KEY \notin DOMAIN cat
        THEN [err |-> "RuntimeError: KPI_OCS_JOB not in catalog", jobs |-> jobs, cost |-> 0]
        ELSE [err |-> "none", jobs |-> jobs, cost |-> jobs * cat[OCS_KEY].chuan_cost]

\* log_experiment
Experiment(autostation_name, experiment_type, subject_species, wait_weeks) ==
    [autostation_name |-> autostation_name, experiment_type |-> experiment_type,
     subject_species |-> subject_species, wait_weeks |-> wait_weeks]

(***************************************************************************)
(* A booking, as the nine run_* functions lay it out.  A plan names, for   *)
(* one call, the checks before and after the OCS cost is computed (in the  *)
(* function's order) and what is deducted once the prompt is confirmed.    *)
(***************************************************************************)
\* a variant that lets every check pass
check_passes_any(i, plan, check, cost) == TRUE

check_passes(i, plan, check, cost) ==
    CASE check = "cartridge" -> i[plan.cartridge] >= 1
      [] check = "animals" -> check_animal_required(i, plan.species, plan.animal_shifts)
      [] check = "shifts" -> check_ta_shifts_required(i, plan.shifts_checked)
      [] check = "credits" -> ~(i["credits"] < cost)

RECURSIVE first_failed(_, _, _, _, _)
\* the first check of checks[k..] that fails, "none" if all pass
first_failed(i, plan, checks, cost, k) ==
    IF k > Len(checks) THEN "none"
    ELSE IF ~check_passes(i, plan, checks[k], cost) THEN checks[k]
    ELSE first_failed(i, plan, checks, cost, k + 1)

\* a variant that uses up two cartridges
booking_deduct_two(i, plan, cost) ==
    [inv |-> [deduct_ta_shifts(i, plan.shifts_deducted) EXCEPT ![plan.cartridge] = @ - 2],
     err |-> "none"]

\* the deductions in the order cartridge, shifts, animals, credits
booking_deduct(i, plan, cost) ==
    LET i1 == IF plan.cartridge = "None" THEN i ELSE [i EXCEPT ![plan.cartridge] = @ - 1]
        i2 == deduct_ta_shifts(i1, plan.shifts_deducted)
        a == IF plan.deduct_animals THEN deduct_animals(i2, plan.species, plan.animal_shifts)
             ELSE [inv |-> i2, err |-> "none"]
    IN  IF a.err # "none" THEN a
        ELSE [inv |-> [a.inv EXCEPT !["credits"] = @ - cost], err |-> "none"]

BookingFrame == Call /\ Setup /\ History /\ UNCHANGED <<pc, orders>>

book(plan, confirm) ==
    /\ pc = "idle"
    /\ BookingFrame
    /\ IF inv = NoInventory
       THEN /\ NoWrite
            /\ result' = Outcome(plan.op, "RuntimeError: inventory not initialized", "-", "-")
       ELSE LET pre == first_failed(inv, plan, plan.pre, 0, 1)
                ocs == IF plan.ocs_per_job = 0 THEN [err |-> "none", jobs |-> 0, cost |-> 0]
                       ELSE calculate_ocs_cost(catalog, plan.ocs_num, plan.ocs_den, plan.ocs_per_job)
                cost == ocs.cost + plan.extra_cost
                post == first_failed(inv, plan, plan.post, cost, 1)
                paid == booking_deduct(inv, plan, cost)
            IN  IF pre # "none"
                THEN NoWrite /\ result' = Outcome(plan.op, pre, "-", "-")
                ELSE IF ocs.err # "none"
                THEN NoWrite /\ result' = Outcome(plan.op, ocs.err, "-", "-")
                ELSE IF post # "none"
                THEN NoWrite /\ result' = Outcome(plan.op, post, "-", "-")
                ELSE IF plan.name_error
                THEN NoWrite /\ result' = Outcome(plan.op, "NameError: theta_cost", "-", "-")
                ELSE IF confirm = "n"
                THEN NoWrite /\ result' = Outcome(plan.op, "not booked", plan.species, "-")
                ELSE IF paid.err # "none"
                THEN \* raised between the deductions and the commit
                     /\ inv' = paid.inv
                     /\ UNCHANGED <<orders, experiments, db>>
                     /\ result' = Outcome(plan.op, paid.err, plan.species, "-")
                ELSE /\ inv' = paid.inv
                     /\ experiments' = Append(experiments, Experiment(plan.autostation, plan.op, plan.species, plan.wait_weeks))
                     /\ commit
                     /\ result' = Outcome(plan.op, "ok", plan.species, plan.shifts_deducted)

(***************************************************************************)
(* UserExperiments: the nine booking functions                             *)
(***************************************************************************)
\* shifts_required = ceil(total_samples / 5); no animal check before deduct_animals
geneweaver_dge_plan(species, total_samples, max_sequences) ==
    LET shifts_required == ceil(total_samples, 5)
    IN  [op |-> "DGE Analysis", autostation |-> "GeneWeaver", species |-> species,
         cartridge |-> "xatty_cartridge", pre |-> <<"cartridge", "shifts">>,
         post |-> <<"credits">>,
         ocs_num |-> IF max_sequences > 0 THEN total_samples * max_sequences
                     ELSE total_samples * 1000,
         ocs_den |-> 1, ocs_per_job |-> 100, extra_cost |-> 0,
         shifts_checked |-> shifts_required, shifts_deducted |-> shifts_required,
         animal_shifts |-> shifts_required * total_samples, deduct_animals |-> TRUE,
         name_error |-> FALSE, wait_weeks |-> 2]

run_geneweaver_dge_analysis(species, total_samples, max_sequences, confirm) ==
    book(geneweaver_dge_plan(species, total_samples, max_sequences), confirm)

\* the one booking without a compute component
run_geneweaver_viral_modification(species, total_animals, confirm) ==
    book([op |-> "Viral Vector Modification", autostation |-> "GeneWeaver", species |-> species,
          cartridge |-> "xatty_cartridge", pre |-> <<"animals", "cartridge", "shifts">>,
          post |-> <<>>,
          ocs_num |-> 0, ocs_den |-> 1, ocs_per_job |-> 0, extra_cost |-> 0,
          shifts_checked |-> total_animals, shifts_deducted |-> total_animals,
          animal_shifts |-> total_animals * total_animals, deduct_animals |-> TRUE,
          name_error |-> FALSE, wait_weeks |-> 3], confirm)

run_intraspectra_visual(species, subject_count, capture_type, confirm) ==
    LET samples_per_shift == IF capture_type = "Single_Frame" THEN 3 ELSE 5
        total_frames == IF capture_type = "Single_Frame" THEN subject_count * 3
                        ELSE subject_count * 10
        shifts_required == ceil(total_frames, samples_per_shift)
    IN  book([op |-> "Visual Acquisition", autostation |-> "Intraspectra", species |-> species,
              cartridge |-> "zeropoint_cartridge", pre |-> <<>>,
              post |-> <<"cartridge", "animals", "shifts", "credits">>,
              ocs_num |-> total_frames, ocs_den |-> 1, ocs_per_job |-> 2, extra_cost |-> 0,
              shifts_checked |-> shifts_required, shifts_deducted |-> shifts_required,
              animal_shifts |-> shifts_required, deduct_animals |-> TRUE,
              name_error |-> FALSE, wait_weeks |-> 1], confirm)

run_intraspectra_rt(species, subject_count, static_volume, is_custom, number_of_volumes, confirm) ==
    LET base_per_2_shifts == IF static_volume THEN 10 ELSE 5
        shifts_required == ceil(subject_count, base_per_2_shifts) * 2 + (IF is_custom THEN 2 ELSE 0)
        total_volumes == IF static_volume THEN subject_count ELSE subject_count * number_of_volumes
    IN  book([op |-> "Resonance Tomography", autostation |-> "Intraspectra", species |-> species,
              cartridge |-> "zeropoint_cartridge", pre |-> <<>>,
              post |-> <<"cartridge", "animals", "shifts", "credits">>,
              ocs_num |-> total_volumes, ocs_den |-> 1, ocs_per_job |-> 10, extra_cost |-> 0,
              shifts_checked |-> shifts_required, shifts_deducted |-> shifts_required,
              animal_shifts |-> shifts_required * subject_count, deduct_animals |-> TRUE,
              name_error |-> FALSE, wait_weeks |-> 2], confirm)

run_neurocartographer_trace(species, subject_count, max_neurons, confirm) ==
    LET shifts_required == 10 + subject_count + max_neurons * 2
    IN  book([op |-> "Directed Circuit Trace", autostation |-> "NeuroCartographer", species |-> species,
              cartridge |-> "nc_pk1_cartridge", pre |-> <<>>,
              post |-> <<"cartridge", "animals", "shifts", "credits">>,
              ocs_num |-> max_neurons, ocs_den |-> 1, ocs_per_job |-> 1, extra_cost |-> 0,
              shifts_checked |-> shifts_required, shifts_deducted |-> shifts_required,
              animal_shifts |-> shifts_required * subject_count - 10, deduct_animals |-> TRUE,
              name_error |-> FALSE, wait_weeks |-> 2], confirm)

\* with a probe the per-subject cost is 0.5 shifts: total_subjects is taken even
run_panopticam_monitoring(species, total_subjects, monitoring_hours, event_count, confirm) ==
    LET shifts_required == total_subjects \div 2 + total_subjects * monitoring_hours
    IN  book([op |-> "Define & Monitor Behavioral Events", autostation |-> "Panopticam", species |-> species,
              cartridge |-> "mamr_reel_cartrdige", pre |-> <<>>,
              post |-> <<"cartridge", "animals", "shifts", "credits">>,
              ocs_num |-> monitoring_hours * total_subjects * event_count, ocs_den |-> 1,
              ocs_per_job |-> 1, extra_cost |-> 0,
              shifts_checked |-> shifts_required, shifts_deducted |-> shifts_required,
              animal_shifts |-> shifts_required, deduct_animals |-> TRUE,
              name_error |-> FALSE, wait_weeks |-> 2], confirm)

\* the feasibility check is made with shift_cost, the deduction with shifts_required
polykiln_plan(species, size_points, mech_tier, elec_tier) ==
    LET score == size_points * 2 + mech_tier + elec_tier
        cartridge_field == IF score <= 4 THEN "smart_filament_s_cartridge"
                           ELSE IF score <= 8 THEN "smart_filament_m_cartridge"
                           ELSE "smart_filament_l_cartridge"
        shift_cost == IF score <= 4 THEN 1 ELSE IF score <= 8 THEN 3 ELSE 5
        tier_shifts == [t \in 0..3 |-> t]
        tier_costs == [t \in 0..3 |-> t * t]
        shifts_required == shift_cost + tier_shifts[mech_tier] + tier_shifts[elec_tier]
        ocs_level == 5 + tier_costs[mech_tier] + tier_costs[elec_tier]
    IN  [op |-> "Object Fabrication", autostation |-> "Polykiln", species |-> species,
         cartridge |-> cartridge_field, pre |-> <<>>,
         post |-> <<"cartridge", "shifts", "credits">>,
         ocs_num |-> ocs_level, ocs_den |-> 1, ocs_per_job |-> 10, extra_cost |-> 0,
         shifts_checked |-> shift_cost, shifts_deducted |-> shifts_required,
         animal_shifts |-> 0, deduct_animals |-> FALSE,
         name_error |-> FALSE, wait_weeks |-> 2]

run_polykiln_fabrication(species, size_points, mech_tier, elec_tier, confirm) ==
    book(polykiln_plan(species, size_points, mech_tier, elec_tier), confirm)

\* theta_cost is bound only when theta is requested; the dry-run print reads it
run_virgo_analysis(species, is_new_sample, theta_requested, confirm) ==
    LET shifts_required == IF is_new_sample THEN 2 ELSE 1
    IN  book([op |-> "Compound Analysis", autostation |-> "Virgo", species |-> species,
              cartridge |-> "None", pre |-> <<>>,
              post |-> <<"animals", "shifts", "credits">>,
              ocs_num |-> IF is_new_sample THEN 10 ELSE 2, ocs_den |-> 10, ocs_per_job |-> 1,
              extra_cost |-> IF theta_requested THEN 8000 ELSE 0,
              shifts_checked |-> shifts_required, shifts_deducted |-> shifts_required,
              animal_shifts |-> IF is_new_sample THEN shifts_required ELSE 0,
              deduct_animals |-> TRUE,
              name_error |-> ~theta_requested, wait_weeks |-> 1], confirm)

run_virgo_synthesis(species, is_novel, confirm) ==
    book([op |-> "Synthesize Compound", autostation |-> "Virgo", species |-> species,
          cartridge |-> "dupont_cartridge", pre |-> <<>>,
          post |-> <<"cartridge", "shifts", "credits">>,
          ocs_num |-> IF is_novel THEN 1 ELSE 0, ocs_den |-> 1, ocs_per_job |-> 1, extra_cost |-> 0,
          shifts_checked |-> 3, shifts_deducted |-> 3,
          animal_shifts |-> 0, deduct_animals |-> FALSE,
          name_error |-> FALSE, wait_weeks |-> 2], confirm)

(***************************************************************************)
(* The runs.                                                               *)
(***************************************************************************)
\* user 1 is a seeded user, user 5 is none
UserIds == {1, 5}

\* the two price classes of the catalog
OrderArticles == {"xatty_cartridge", "juice"}

BookingSpecies == {"animals_51u6", "animals_c248_b"}

Confirm == {"y", "n"}

\* the database after re_initialize_database
EmptyInit ==
    /\ inv = NoInventory
    /\ orders = <<>>
    /\ experiments = <<>>
    /\ db = [inv |-> NoInventory, orders |-> <<>>, experiments |-> <<>>]
    /\ catalog = NoCatalog
    /\ users = {}
    /\ pc = "idle"
    /\ week = 0
    /\ budget = MaxSetupCalls
    /\ fatal = {}
    /\ result = Outcome("re_initialize_database", "ok", "-", "-")

\* the database as main.py seeds it: inventory, users, catalog
SeededInit ==
    /\ inv = initial_inventory
    /\ orders = <<>>
    /\ experiments = <<>>
    /\ db = [inv |-> initial_inventory, orders |-> <<>>, experiments |-> <<>>]
    /\ catalog = item_catalog
    /\ users = test_users
    /\ pc = "idle"
    /\ week = 0
    /\ budget = MaxCalls
    /\ fatal = {}
    /\ result = Outcome("initialize_item_catalog", "ok", "-", "-")

RECURSIVE spend_all(_, _, _)
\* quick orders for one article, placed for as long as the credits cover one
spend_all(i, os, now) ==
    LET cost == order_cost(item_catalog["xatty_cartridge"].chuan_cost, "quick")
    IN  IF i["credits"] < cost THEN [inv |-> i, orders |-> os]
        ELSE spend_all(deduct_order_cost(i, cost).inv,
                       Append(os, Order("xatty_cartridge", cost, ACQUISITION_RULES["quick"].cooldown, FALSE, "None", "None", now)),
                       now)

\* A later state of the seeded database.  Two weeks before the run two roles
\* were boosted, a smart order for juice was placed, and quick orders used
\* up the credits; two ticks followed.  The run starts with little credit,
\* one juice, two roles at risk and the juice order one week from delivery.
LateLedger ==
    LET then == 0 - 2
        boosted == juiz_outcome(juiz_outcome(initial_inventory, "ta_saltos_shifts", 1), "ta_nitro_shifts", 1)
        logged == <<juiz_order("ta_saltos_shifts", then), juiz_order("ta_nitro_shifts", then)>>
        juice_cost == order_cost(item_catalog["juice"].chuan_cost, "smart")
        ordered == deduct_order_cost(boosted, juice_cost).inv
        queued == Append(logged, Order("juice", juice_cost, ACQUISITION_RULES["smart"].cooldown, FALSE, "None", "None", then))
        spent == spend_all(ordered, queued, then)
        tick1 == advance_one_week(spent.inv, spent.orders, then + 1)
    IN  advance_one_week(tick1.inv, tick1.orders, then + 2)

LateInit ==
    /\ inv = LateLedger.inv
    /\ orders = LateLedger.orders
    /\ experiments = <<>>
    /\ db = [inv |-> LateLedger.inv, orders |-> LateLedger.orders, experiments |-> <<>>]
    /\ catalog = item_catalog
    /\ users = test_users
    /\ pc = "idle"
    /\ week = 0
    /\ budget = MaxCalls
    /\ fatal = {}
    /\ result = Outcome("advance_one_week", "ok", "-", "-")

Init == EmptyInit \/ SeededInit \/ LateInit

Next ==
    \/ initialize_inventory
    \/ create_test_users
    \/ initialize_item_catalog
    \/ \E u \in UserIds, a \in OrderArticles, t \in AcquisitionType : place_order(u, a, t)
    \/ \E f \in TA_SHIFTS, dice \in Rolls : administer_juiz(f, dice)
    \/ \E s \in AnimalSpecies : collect_animals(s)
    \/ session_close
    \/ \E s \in BookingSpecies, c \in Confirm : run_geneweaver_dge_analysis(s, 10, 5000, c)
    \/ \E s \in BookingSpecies, n \in {2, 35}, c \in Confirm : run_geneweaver_viral_modification(s, n, c)
    \/ \E s \in BookingSpecies, c \in Confirm : run_intraspectra_visual(s, 4, "Time_Series", c)
    \/ \E s \in BookingSpecies, c \in Confirm : run_intraspectra_rt(s, 5, TRUE, FALSE, 20, c)
    \/ \E s \in BookingSpecies, c \in Confirm : run_neurocartographer_trace(s, 3, 120, c)
    \/ \E s \in BookingSpecies, c \in Confirm : run_panopticam_monitoring(s, 8, 2, 2, c)
    \/ \E s \in BookingSpecies, c \in Confirm : run_polykiln_fabrication(s, 2, 2, 2, c)
    \/ \E s \in BookingSpecies, th \in BOOLEAN, c \in Confirm : run_virgo_analysis(s, TRUE, th, c)
    \/ \E s \in BookingSpecies, c \in Confirm : run_virgo_synthesis(s, TRUE, c)
    \/ advance_step1
    \/ advance_step2
    \/ advance_step3
    \/ advance_step4
    \/ advance_step5

Spec == Init /\ [][Next]_vars

(***************************************************************************)
(* Worn ledgers: states a longer play reaches, built from the operations.  *)
(***************************************************************************)
RECURSIVE boost_rounds(_, _, _, _, _)
\* n rounds on one role, the last ending at tick `now`.  A round: a quick
\* order for juice, a boost with the highest roll, two ticks (the first
\* delivers the juice and the aftermath, the second restores 30/30).
boost_rounds(i, os, ta_field, n, now) ==
    IF n = 0 THEN [inv |-> i, orders |-> os]
    ELSE LET before == boost_rounds(i, os, ta_field, n - 1, now - 2)
             then == now - 2
             cost == order_cost(item_catalog["juice"].chuan_cost, "quick")
             bought == deduct_order_cost(before.inv, cost).inv
             queued == Append(before.orders, Order("juice", cost, ACQUISITION_RULES["quick"].cooldown, FALSE, "None", "None", then))
             boosted == juiz_outcome(bought, ta_field, 100)
             logged == Append(queued, juiz_order(ta_field, then))
             tick1 == advance_one_week(boosted, logged, then + 1)
         IN  \* the earlier rounds are worked out before this one
             IF Len(before.orders) = 2 * (n - 1)
             THEN advance_one_week(tick1.inv, tick1.orders, then + 2)
             ELSE before

\* the ledger after n boost rounds on ta_field
RiskInit(ta_field, n) ==
    LET worn == boost_rounds(initial_inventory, <<>>, ta_field, n, 0)
    IN  /\ inv = worn.inv
        /\ orders = worn.orders
        /\ experiments = <<>>
        /\ db = [inv |-> worn.inv, orders |-> worn.orders, experiments |-> <<>>]
        /\ catalog = item_catalog
        /\ users = test_users
        /\ pc = "idle"
        /\ week = 0
        /\ budget = MaxBoosts
        /\ fatal = {}
        /\ result = Outcome("advance_one_week", "ok", "-", "-")

\* boosts with every roll, and ticks
NextRisk ==
    \/ \E f \in TA_SHIFTS, dice \in Dice : administer_juiz(f, dice)
    \/ advance_step1
    \/ advance_step2
    \/ advance_step3
    \/ advance_step4
    \/ advance_step5

\* the first and the last role of the greedy order
RiskRoles == {"ta_saltos_shifts", "ta_carnival_shifts"}

SpecRisk ==
    /\ \E f \in RiskRoles, n \in 0..MaxPastBoosts : RiskInit(f, n)
    /\ [][NextRisk]_vars

RECURSIVE past_hunts(_, _)
\* n hunts of the species that is stocked from the start, each with the
\* lowest gaussian yield, made in the current week while the shifts last
past_hunts(i, n) ==
    IF n = 0 \/ total_shifts(i) < HUNT_SHIFTS THEN i
    ELSE past_hunts(hunt_direct(greedy(i, HUNT_SHIFTS, 1), "animals_51u6", 3), n - 1)

\* the seeded ledger after n hunts
HuntInit(n) ==
    /\ inv = past_hunts(initial_inventory, n)
    /\ orders = <<>>
    /\ experiments = <<>>
    /\ db = [inv |-> past_hunts(initial_inventory, n), orders |-> <<>>, experiments |-> <<>>]
    /\ catalog = item_catalog
    /\ users = test_users
    /\ pc = "idle"
    /\ week = 0
    /\ budget = MaxCalls
    /\ fatal = {}
    /\ result = Outcome("collect_animals", "ok", "animals_51u6", 3)

\* hunts, the end of their sessions, and ticks
NextHunt ==
    \/ \E s \in AnimalSpecies : collect_animals(s)
    \/ session_close
    \/ advance_step1
    \/ advance_step2
    \/ advance_step3
    \/ advance_step4
    \/ advance_step5

SpecHunt ==
    /\ \E n \in 0..MaxPastHunts : HuntInit(n)
    /\ [][NextHunt]_vars

\* The ledger after n boost rounds on ta_field and, with `fresh`, one more
\* boost (highest roll) and the tick that applies its aftermath: the role is
\* at round(54 x 0.3) = 16 of 16.  The run has room for two calls.
BoostInit(ta_field, n, fresh) ==
    LET worn == boost_rounds(initial_inventory, <<>>, ta_field, n, IF fresh THEN 0 - 1 ELSE 0)
        boosted == juiz_outcome(worn.inv, ta_field, 100)
        logged == Append(worn.orders, juiz_order(ta_field, 0 - 1))
        start == IF fresh THEN advance_one_week(boosted, logged, 0) ELSE worn
    IN  /\ inv = start.inv
        /\ orders = start.orders
        /\ experiments = <<>>
        /\ db = [inv |-> start.inv, orders |-> start.orders, experiments |-> <<>>]
        /\ catalog = item_catalog
        /\ users = test_users
        /\ pc = "idle"
        /\ week = 0
        /\ budget = MaxCalls
        /\ fatal = {}
        /\ result = Outcome("advance_one_week", "ok", "-", "-")

\* boosts with the rolls around the risks, and ticks
NextBoost ==
    \/ \E f \in TA_SHIFTS, dice \in Rolls : administer_juiz(f, dice)
    \/ advance_step1
    \/ advance_step2
    \/ advance_step3
    \/ advance_step4
    \/ advance_step5

SpecBoost ==
    /\ \E f \in RiskRoles, n \in 0..MaxPastBoosts, fresh \in BOOLEAN : BoostInit(f, n, fresh)
    /\ [][NextBoost]_vars

(***************************************************************************)
(* Order tables of any content.  The handlers of the tick guard against    *)
(* rows that no operation writes (an unknown event_type, a missing or      *)
(* unknown inventory_field, an article that is no column): the runs below  *)
(* start from the seeded ledger with such rows in the table, one tick (or  *)
(* two) from maturing.                                                     *)
(***************************************************************************)
\* plain rows: three articles (one is no column of Inventory), two tiers
PlainRows ==
    {Order(a, v, w, FALSE, "None", "None", 0) :
        a \in {"juice", "xatty_cartridge", "kpi_ocs_job"}, v \in {8000, 140000}, w \in {1}}
    \cup {Order("juice", 10000, 2, FALSE, "None", "None", 0)}

\* effect rows: the two event types and two others, each with a column of
\* its handler's kind, a null field and a field that is no column
EffectRows ==
    {Order("JUICE", 0, 1, TRUE, f, "juiz", 0) : f \in {"ta_nitro_shifts", "None", "no_such_column"}}
    \cup {Order("animals_51u6_m", 3, 1, TRUE, f, "hunt", 0) :
            f \in {"animals_51u6_m_available", "None", "no_such_column"}}
    \cup {Order("JUICE", 3, 1, TRUE, f, e, 0) :
            f \in {"ta_nitro_shifts", "animals_51u6_m_available"}, e \in {"None", "audit"}}

QueueRows == PlainRows \cup EffectRows

QueueInit(rows) ==
    /\ inv = initial_inventory
    /\ orders = rows
    /\ experiments = <<>>
    /\ db = [inv |-> initial_inventory, orders |-> rows, experiments |-> <<>>]
    /\ catalog = item_catalog
    /\ users = test_users
    /\ pc = "idle"
    /\ week = 0
    /\ budget = 0
    /\ fatal = {}
    /\ result = Outcome("initialize_item_catalog", "ok", "-", "-")

\* ticks, and the end of the session of a tick that raised
NextQueue ==
    \/ session_close
    \/ advance_step1
    \/ advance_step2
    \/ advance_step3
    \/ advance_step4
    \/ advance_step5

SpecQueue ==
    /\ \E n \in 0..MaxQueue : \E rows \in [1..n -> QueueRows] : QueueInit(rows)
    /\ [][NextQueue]_vars

(***************************************************************************)
(* What the properties below compare the operations against.               *)
(***************************************************************************)
\* the catalog price of an article
CatalogPrice(article) == IF article = "juice" THEN 10000 ELSE 70000

\* the acquisition policy: multiplier in hundredths, lead time in weeks
TierMultiplier(tier) == CASE tier = "quick" -> 200 [] tier = "standard" -> 100 [] tier = "smart" -> 80

TierLead(tier) == CASE tier = "quick" -> 1 [] tier = "standard" -> 2 [] tier = "smart" -> 3

TierCost(article, tier) == (CatalogPrice(article) * TierMultiplier(tier)) \div 100

\* os2 is os with exactly one row added
OneAdded(os, os2) == Len(os2) = Len(os) + 1 /\ SubSeq(os2, 1, Len(os)) = os

Newest(os) == os[Len(os)]

\* the step is an operation op that ended with status
Ended(op, status) == result'.op = op /\ result'.status = status

\* a completed tick
TickDone == pc = "idle" /\ result.op = "advance_one_week" /\ result.status = "ok"

(***************************************************************************)
(* C1: every successful place_order takes exactly catalog price x tier     *)
(* multiplier off credits (quick 2.00, standard 1.00, smart 0.80), appends *)
(* exactly one plain pending effect for the ordered article whose          *)
(* wait_weeks is the tier's lead time (quick 1, standard 2, smart 3), and  *)
(* changes no other ledger field; a quick order at price 70000 from        *)
(* 2,000,000 credits leaves 1,860,000 and one effect with wait_weeks 1.    *)
(***************************************************************************)
C1_place_order_success ==
    [][Ended("place_order", "ok") =>
          LET article == result'.target
              tier == result'.arg
              new == Newest(orders')
          IN  /\ inv # NoInventory
              /\ inv' = [inv EXCEPT !["credits"] = @ - TierCost(article, tier)]
              /\ OneAdded(orders, orders')
              /\ new.article = article /\ new.is_effect = FALSE
              /\ new.wait_weeks = TierLead(tier)
              /\ experiments' = experiments
              /\ (inv["credits"] = 2000000 /\ article = "xatty_cartridge" /\ tier = "quick"
                    => inv'["credits"] = 1860000 /\ new.wait_weeks = 1)]_vars

C1_witness ==
    /\ result = Outcome("place_order", "ok", "xatty_cartridge", "quick")
    /\ inv["credits"] = 1860000
    /\ Len(orders) = 1
    /\ orders[1].wait_weeks = 1 /\ orders[1].is_effect = FALSE

(***************************************************************************)
(* C2: place_order ends in an error when the user is unknown, the article  *)
(* is not in the catalog, the ledger is uninitialised, or credits are      *)
(* below the computed cost; on each of these paths the ledger, the pending *)
(* effects and what is persisted stay as they were.                        *)
(***************************************************************************)
C2_place_order_rejected ==
    [][\A u \in UserIds, a \in OrderArticles, t \in AcquisitionType :
          (/\ result'.op = "place_order"
           /\ place_order(u, a, t)
           /\ \/ u \notin users
              \/ a \notin DOMAIN catalog
              \/ inv = NoInventory
              \/ inv["credits"] < TierCost(a, t))
          => /\ result'.status \in {"ValueError: user not found",
                                    "ValueError: article not in catalog",
                                    "RuntimeError: inventory not initialized",
                                    "ValueError: insufficient credits"}
             /\ inv' = inv /\ orders' = orders /\ experiments' = experiments /\ db' = db]_vars

C2_witness ==
    /\ result.op = "place_order"
    /\ result.status = "ValueError: insufficient credits"
    /\ inv["credits"] < TierCost(result.target, result.arg)
    /\ inv = db.inv /\ orders = db.orders

(***************************************************************************)
(* C3: in every state reached from the initial ledger by place-order,      *)
(* boost, hunt, booking and tick operations, credits are at least 0, in    *)
(* the session's ledger and in the persisted one.                          *)
(***************************************************************************)
C3_credits_never_negative ==
    /\ inv # NoInventory => inv["credits"] >= 0
    /\ db.inv # NoInventory => db.inv["credits"] >= 0

\* credits spent down to less than the cheapest order
C3_witness ==
    /\ result.op = "place_order" /\ result.status = "ok"
    /\ inv["credits"] >= 0
    /\ inv["credits"] < TierCost("juice", "smart")

(***************************************************************************)
(* C4: each pending effect is applied exactly once: at the tick in which   *)
(* its wait_weeks reaches 0 and at no later tick; a tick in which no       *)
(* effect reaches 0 applies nothing.                                       *)
(***************************************************************************)
C4_applied_once ==
    /\ [](\A k \in 1..Len(orders) :
            orders[k].applied = IF orders[k].wait_weeks <= 0 THEN 1 ELSE 0)
    /\ [][pc = "step2" =>
            /\ \A k \in 1..Len(orders) :
                 orders'[k].applied = orders[k].applied + (IF orders[k].wait_weeks = 1 THEN 1 ELSE 0)
            /\ (\A k \in 1..Len(orders) : orders[k].wait_weeks # 1) => inv' = inv]_vars

\* a tick has completed after the one that applied a row
C4_witness ==
    /\ TickDone
    /\ \E k \in 1..Len(orders) :
         /\ orders[k].applied = 1
         /\ orders[k].created >= 0
         /\ week > orders[k].applied_tick

C6_shift_reset_first ==
    /\ [](pc \in {"step1", "step2"} =>
            /\ \A f \in TA_SHIFTS : inv[f] = 30
            /\ orders = db.orders)
    /\ [][pc' # pc =>
            \/ /\ pc = "idle" /\ pc' = "step1"
               /\ \A f \in TA_SHIFTS : inv'[f] = 30
               /\ \A f \in Inventory \ TA_SHIFTS : inv'[f] = inv[f]
            \/ /\ pc = "step1" /\ pc' = "step2"
               /\ \A s \in AnimalSpecies : inv'[available_field(s)] = inv[animal_max_field(s)]
               /\ \A f \in Inventory \ ANIMAL_AVAILABLE : inv'[f] = inv[f]
            \/ /\ pc = "step2" /\ pc' = "step3"
               /\ \A k \in 1..Len(orders) :
                    orders[k].wait_weeks >= 0 => orders'[k].wait_weeks = orders[k].wait_weeks - 1
               /\ \A f \in TA_MAX \cup ANIMAL_MAX : inv'[f] = inv[f]
            \/ /\ pc = "step3" /\ pc' = "step4"
               /\ orders' = orders
               /\ \A f \in Inventory \ TA_MAX : inv'[f] = inv[f]
            \/ /\ pc = "step4" /\ pc' = "idle"
               /\ orders' = orders
               /\ \A f \in Inventory \ ANIMAL_MAX : inv'[f] = inv[f]]_vars

\* step 1 has run on shifts that were not 30, with a boost aftermath pending
C6_witness ==
    /\ pc = "step1"
    /\ db.inv["ta_saltos_shifts"] = 54
    /\ inv["ta_saltos_shifts"] = 30
    /\ \E k \in 1..Len(orders) : orders[k].event_type = "juiz" /\ orders[k].wait_weeks = 1

(***************************************************************************)
(* C7: after every completed tick each role's shifts_max equals its shifts *)
(* and each species' max equals its available, these being the values the *)
(* tick's maturation pass left.                                            *)
(***************************************************************************)
C7_ceilings_follow ==
    /\ [](TickDone =>
            /\ \A f \in TA_SHIFTS : inv[shifts_max_field(f)] = inv[f]
            /\ \A s \in AnimalSpecies : inv[animal_max_field(s)] = inv[available_field(s)])
    /\ [][/\ pc = "step3" => \A f \in TA_SHIFTS : inv'[shifts_max_field(f)] = inv[f] /\ inv'[f] = inv[f]
          /\ pc = "step4" =>
               /\ \A s \in AnimalSpecies :
                    /\ inv'[animal_max_field(s)] = inv[available_field(s)]
                    /\ inv'[available_field(s)] = inv[available_field(s)]
               /\ \A f \in TA_SHIFTS : inv'[shifts_max_field(f)] = inv[f] /\ inv'[f] = inv[f]]_vars

\* the aftermath of a boost (54 -> 16) and a delivered hunt set the values
\* the ceilings follow
C7_witness ==
    /\ TickDone
    /\ inv["ta_saltos_shifts"] = 16 /\ inv["ta_saltos_shifts_max"] = 16
    /\ db.inv = inv

(***************************************************************************)
(* C8: a successful boost of an eligible role turns shifts_max into        *)
(* round(old_max x 1.8), raises shifts by new_max - old_max and sets risk  *)
(* to min(risk + 10, 100); from the fresh ledger every roll is a success   *)
(* and gives shifts_max 54, shifts 54, risk 10, juice 2 and one            *)
(* boost-aftermath effect with wait_weeks 1.                               *)
(***************************************************************************)
C8_boost_success ==
    [][/\ Ended("administer_juiz", "ok") /\ result'.arg = "boost" =>
            LET f == result'.target
                old_max == inv[shifts_max_field(f)]
                \* 1.8 x old_max is never halfway between two integers
                new_max == (18 * old_max + 5) \div 10
            IN  /\ 0 < old_max /\ old_max <= 30
                /\ inv'[shifts_max_field(f)] = new_max
                /\ inv'[f] = inv[f] + (new_max - old_max)
                /\ inv'[risk_field(f)] = IF inv[risk_field(f)] + 10 < 100 THEN inv[risk_field(f)] + 10 ELSE 100
       /\ Ended("administer_juiz", "ok") /\ inv = initial_inventory =>
            LET f == result'.target
            IN  /\ result'.arg = "boost"
                /\ inv'[shifts_max_field(f)] = 54 /\ inv'[f] = 54
                /\ inv'[risk_field(f)] = 10 /\ inv'["juice"] = 2
                /\ Len(orders') = 1
                /\ orders'[1].event_type = "juiz" /\ orders'[1].wait_weeks = 1]_vars

C8_witness ==
    /\ result = Outcome("administer_juiz", "ok", "ta_helene_shifts", "boost")
    /\ inv["ta_helene_shifts_max"] = 54 /\ inv["ta_helene_shifts"] = 54
    /\ inv["ta_helene_risk"] = 10 /\ inv["juice"] = 2
    /\ Len(orders) = 1 /\ orders[1].event_type = "juiz" /\ orders[1].wait_weeks = 1

(***************************************************************************)
(* C9: after a boost ended in a fatality for a role, the role's shifts and *)
(* shifts_max are 0 in every later state that ticks and user operations    *)
(* reach.                                                                  *)
(***************************************************************************)
C9_fatality_permanent ==
    \A f \in fatal : pc = "idle" => inv[f] = 0 /\ inv[shifts_max_field(f)] = 0

(***************************************************************************)
(* C10: every administer_juiz call that passes its preconditions takes     *)
(* exactly 1 off juice and appends exactly one pending effect with         *)
(* is_effect true, event_type 'juiz', the role's shifts field as its       *)
(* target and wait_weeks 1, for a success and for a fatality alike.        *)
(***************************************************************************)
C10_boost_logged ==
    [][\A f \in TA_SHIFTS, dice \in Rolls :
          (/\ result'.op = "administer_juiz"
           /\ inv # NoInventory
           /\ inv["juice"] >= 1
           /\ 0 < inv[shifts_max_field(f)] /\ inv[shifts_max_field(f)] <= 30
           /\ administer_juiz(f, dice))
          => /\ result'.status = "ok" /\ result'.arg \in {"boost", "fatality"}
             /\ inv'["juice"] = inv["juice"] - 1
             /\ OneAdded(orders, orders')
             /\ Newest(orders').is_effect = TRUE
             /\ Newest(orders').event_type = "juiz"
             /\ Newest(orders').inventory_field = f
             /\ Newest(orders').wait_weeks = 1
             /\ db'.orders = orders' /\ db'.inv = inv']_vars

\* a fatality, logged like a success
C10_witness ==
    /\ result.op = "administer_juiz" /\ result.status = "ok" /\ result.arg = "fatality"
    /\ inv[result.target] = 0
    /\ inv["juice"] = db.inv["juice"]
    /\ Newest(orders).event_type = "juiz" /\ Newest(orders).is_effect = TRUE
    /\ Newest(orders).inventory_field = result.target /\ Newest(orders).wait_weeks = 1
    /\ Newest(orders).created = week

(***************************************************************************)
(* C11: administer_juiz raises an error and changes nothing (juice,        *)
(* shifts, shifts_max, risk, pending effects) when juice < 1 or when the   *)
(* target role's shifts_max is not in (0, 30].                             *)
(***************************************************************************)
C11_boost_rejected ==
    [][\A f \in TA_SHIFTS, dice \in Rolls :
          (/\ result'.op = "administer_juiz"
           /\ inv # NoInventory
           /\ \/ inv["juice"] < 1
              \/ inv[shifts_max_field(f)] <= 0
              \/ inv[shifts_max_field(f)] > 30
           /\ administer_juiz(f, dice))
          => /\ result'.status = IF inv["juice"] < 1 THEN "ValueError: no juice"
                                 ELSE "ValueError: cannot be juiced"
             /\ inv' = inv /\ orders' = orders /\ experiments' = experiments /\ db' = db]_vars

\* a boost refused for want of juice
C11_witness ==
    /\ result.op = "administer_juiz" /\ result.status = "ValueError: no juice"
    /\ inv["juice"] = 0
    /\ inv = db.inv /\ orders = db.orders

\* a boost refused because the ceiling is above 30
C11_witness_ineligible ==
    /\ result.op = "administer_juiz" /\ result.status = "ValueError: cannot be juiced"
    /\ inv[shifts_max_field(result.target)] = 54
    /\ inv["juice"] >= 1

(***************************************************************************)
(* C12: a boost that passes its preconditions is a success iff risk = 0 or *)
(* roll > risk, for every roll in 1..100: at risk 0 every roll succeeds,   *)
(* at risk 100 every roll is a fatality, at risk r in {10, ..., 90}        *)
(* exactly the rolls r+1..100 succeed.                                     *)
(***************************************************************************)
C12_success_iff_roll_above_risk ==
    [][\A f \in TA_SHIFTS, dice \in Dice :
          (/\ result'.op = "administer_juiz" /\ result'.status = "ok"
           /\ result'.target = f
           /\ administer_juiz(f, dice))
          => LET risk == inv[risk_field(f)]
                 success == result'.arg = "boost"
             IN  /\ result'.arg \in {"boost", "fatality"}
                 /\ success <=> (risk = 0 \/ dice > risk)
                 /\ risk = 0 => success
                 /\ risk = 100 => ~success
                 /\ risk \in 10..90 => (success <=> dice \in (risk + 1)..100)
                 /\ success => inv'[shifts_max_field(f)] > 0
                 /\ ~success => inv'[shifts_max_field(f)] = 0 /\ inv'[f] = 0]_vars

\* a fatality at risk 100
C12_witness ==
    /\ result.op = "administer_juiz" /\ result.status = "ok" /\ result.arg = "fatality"
    /\ inv[risk_field(result.target)] = 100
    /\ inv[result.target] = 0

(***************************************************************************)
(* C13: in every reachable state each role's risk lies in [0, 100]; a      *)
(* successful boost raises it by 10, capped at 100, so the tenth           *)
(* successful boost of a role brings it to 100.                            *)
(***************************************************************************)
C13_risk_in_range ==
    /\ [](inv # NoInventory => \A f \in TA_SHIFTS : inv[risk_field(f)] \in 0..100)
    /\ [][result'.op = "administer_juiz" /\ result'.status = "ok" /\ result'.arg = "boost" =>
            LET r == inv[risk_field(result'.target)]
            IN  inv'[risk_field(result'.target)] = IF r + 10 > 100 THEN 100 ELSE r + 10]_vars

\* the tenth successful boost of a role
C13_witness ==
    /\ result.op = "administer_juiz" /\ result.status = "ok" /\ result.arg = "boost"
    /\ inv[risk_field(result.target)] = 100
    /\ Cardinality({k \in 1..Len(orders) :
                      orders[k].event_type = "juiz" /\ orders[k].inventory_field = result.target}) = 10

(***************************************************************************)
(* C14: a role's risk never decreases, except that a boost ending in a     *)
(* fatality resets the role's risk to 0.                                   *)
(***************************************************************************)
C14_risk_reset_on_death ==
    [][/\ inv # NoInventory /\ inv' # NoInventory =>
            \A f \in TA_SHIFTS :
                \/ inv'[risk_field(f)] >= inv[risk_field(f)]
                \/ result'.op = "administer_juiz" /\ result'.arg = "fatality" /\ result'.target = f
       /\ result'.op = "administer_juiz" /\ result'.status = "ok" /\ result'.arg = "fatality" =>
            inv'[risk_field(result'.target)] = 0]_vars

(***************************************************************************)
(* C15: when a boost aftermath matures in a tick the role's shifts become  *)
(* round(shifts_max x 0.3), from the shifts_max held at maturation and not *)
(* from the 30 that step 1 wrote; step 4 makes that value the new          *)
(* shifts_max.  One successful boost from 30/30 and one tick give 16/16.   *)
(***************************************************************************)
C15_aftermath ==
    [][/\ pc = "step2" =>
            \A k \in 1..Len(orders) :
                orders[k].event_type = "juiz" /\ orders[k].wait_weeks = 1 =>
                    LET f == orders[k].inventory_field
                        ceiling == inv[shifts_max_field(f)]
                    IN  /\ inv[f] = 30
                        \* the nearest integer to 0.3 x ceiling
                        /\ 10 * inv'[f] - 3 * ceiling \in (0 - 5)..5
                        /\ ceiling = 54 => inv'[f] = 16
                        /\ inv'[shifts_max_field(f)] = ceiling
       /\ pc = "step3" =>
            \A f \in TA_SHIFTS : inv'[shifts_max_field(f)] = inv[f] /\ inv'[f] = inv[f]]_vars

\* the aftermath of a boost from 30/30 has matured; step 4 is still to run
C15_witness ==
    /\ pc = "step3"
    /\ inv["ta_nitro_shifts"] = 16
    /\ inv["ta_nitro_shifts_max"] = 54
    /\ inv["ta_nitro_risk"] = 10

(***************************************************************************)
(* C16: once a role has been boosted successfully (its risk is above 0:    *)
(* only a successful boost raises a risk and nothing lowers it), every     *)
(* later administer_juiz on that role is rejected, however many ticks      *)
(* intervene.                                                              *)
(***************************************************************************)
C16_boosted_role_ineligible ==
    [][/\ result'.op = "administer_juiz"
       /\ result'.target \in TA_SHIFTS
       /\ inv[risk_field(result'.target)] > 0
       => result'.status # "ok"]_vars

RECURSIVE Taken(_, _, _)
\* the shifts the roles ta_fields[1..k] lost between the ledgers i and i2
Taken(i, i2, k) == IF k = 0 THEN 0 ELSE Taken(i, i2, k - 1) + i[ta_fields[k]] - i2[ta_fields[k]]

(***************************************************************************)
(* C17: collect_animals with at least 12 shifts over the four roles lowers *)
(* the total by exactly 12, taken greedily in the order saltos, nitro,     *)
(* helene, carnival: each role gives min(its shifts, remaining need), so a *)
(* later role loses shifts only if every earlier role ends at 0, and no    *)
(* role goes below 0.  With fewer than 12 shifts the operation changes no  *)
(* ledger field and enqueues nothing.                                      *)
(***************************************************************************)
C17_greedy_cost ==
    [][result'.op = "collect_animals" /\ inv # NoInventory =>
         IF total_shifts(inv) >= HUNT_SHIFTS
         THEN /\ result'.status = "ok"
              /\ total_shifts(inv') = total_shifts(inv) - 12
              /\ \A k \in 1..4 :
                    /\ inv'[ta_fields[k]] >= 0
                    /\ inv[ta_fields[k]] - inv'[ta_fields[k]]
                         = Min(inv[ta_fields[k]], 12 - Taken(inv, inv', k - 1))
                    /\ inv'[ta_fields[k]] < inv[ta_fields[k]] =>
                          \A j \in 1..(k - 1) : inv'[ta_fields[j]] = 0
         ELSE /\ result'.status = "not enough shifts"
              /\ inv' = inv /\ orders' = orders /\ db' = db]_vars

\* a hunt paid by two roles: the first gave all it had, the second the rest
C17_witness ==
    /\ result.op = "collect_animals" /\ result.status = "ok"
    /\ budget < MaxCalls
    /\ inv["ta_saltos_shifts"] = 0
    /\ inv["ta_nitro_shifts"] = 24
    /\ inv["ta_helene_shifts"] = 30

\* a hunt refused with fewer than 12 shifts left
C17_witness_refused ==
    /\ result.op = "collect_animals" /\ result.status = "not enough shifts"
    /\ total_shifts(inv) \in 0..11
    /\ inv = db.inv

(***************************************************************************)
(* C18: a collect_animals attempt whose yield is 0 still costs its 12      *)
(* shifts: after the operation the persisted ledger has total shifts 12    *)
(* lower, the species' available and max are unchanged and no pending      *)
(* effect is appended.                                                     *)
(***************************************************************************)
C18_zero_yield_cost_persisted ==
    [][result'.op = "collect_animals" /\ result'.status = "ok" /\ result'.arg = 0 =>
         /\ total_shifts(db'.inv) = total_shifts(db.inv) - 12
         /\ \A s \in AnimalSpecies :
               /\ db'.inv[available_field(s)] = db.inv[available_field(s)]
               /\ db'.inv[animal_max_field(s)] = db.inv[animal_max_field(s)]
         /\ db'.orders = db.orders]_vars

(***************************************************************************)
(* C19: a collect_animals call with yield y > 0: for a species with        *)
(* cooldown 0 (51u6, c248_b) its available and max both grow by y and no   *)
(* pending effect is appended; for a species with cooldown > 0 (51u6_m,    *)
(* c248_s) neither changes and exactly one pending effect is appended,     *)
(* with is_effect true, event_type hunt, value y, wait_weeks = cooldown    *)
(* and the species' available field as its target.  No other species is    *)
(* touched.                                                                *)
(***************************************************************************)
C19_yield_effect ==
    [][result'.op = "collect_animals" /\ result'.status = "ok" /\ result'.arg # 0 =>
         LET s == result'.target
             y == result'.arg
         IN  /\ y > 0
             /\ s \in {"animals_51u6", "animals_c248_b"} =>
                   /\ inv'[available_field(s)] = inv[available_field(s)] + y * FTE_SHIFTS
                   /\ inv'[animal_max_field(s)] = inv[animal_max_field(s)] + y * FTE_SHIFTS
                   /\ orders' = orders
             /\ s \in {"animals_51u6_m", "animals_c248_s"} =>
                   /\ inv'[available_field(s)] = inv[available_field(s)]
                   /\ inv'[animal_max_field(s)] = inv[animal_max_field(s)]
                   /\ OneAdded(orders, orders')
                   /\ Newest(orders').is_effect
                   /\ Newest(orders').event_type = "hunt"
                   /\ Newest(orders').value = y
                   /\ Newest(orders').wait_weeks = 1
                   /\ Newest(orders').wait_weeks = HUNTING_RULES[s].cooldown
                   /\ Newest(orders').inventory_field = available_field(s)
             /\ \A s2 \in AnimalSpecies \ {s} :
                   /\ inv'[available_field(s2)] = inv[available_field(s2)]
                   /\ inv'[animal_max_field(s2)] = inv[animal_max_field(s2)]
             /\ db'.inv = inv' /\ db'.orders = orders']_vars

\* a uniform draw of 2 for the species without cooldown
C19_witness ==
    /\ result = Outcome("collect_animals", "ok", "animals_c248_b", 2)
    /\ inv["animals_c248_b_available"] = db.inv["animals_c248_b_max"]
    /\ inv["animals_c248_b_max"] = initial_inventory["animals_c248_b_max"] + 2 * FTE_SHIFTS

\* a scheduled delivery for a species with cooldown
C19_witness_scheduled ==
    /\ result.op = "collect_animals" /\ result.status = "ok" /\ result.target = "animals_c248_s"
    /\ result.arg = 12
    /\ Len(orders) > 0
    /\ Newest(orders).event_type = "hunt" /\ Newest(orders).wait_weeks = 1

RECURSIVE Delivered(_, _, _)
\* the animals that the hunt rows os[1..k] due in the coming tick carry for a column
Delivered(os, field, k) ==
    IF k = 0 THEN 0
    ELSE Delivered(os, field, k - 1)
         + IF os[k].event_type = "hunt" /\ os[k].wait_weeks = 1 /\ os[k].inventory_field = field
           THEN os[k].value ELSE 0

RECURSIVE DueDeliveries(_, _, _)
\* the plain rows among os[1..k] that mature in the coming tick and name the column
DueDeliveries(os, field, k) ==
    IF k = 0 THEN 0
    ELSE DueDeliveries(os, field, k - 1)
         + IF ~os[k].is_effect /\ os[k].wait_weeks = 1 /\ os[k].article = field THEN 1 ELSE 0

(***************************************************************************)
(* C21: when a plain delivery (is_effect false) matures, the column named  *)
(* by its article grows by exactly 1, whatever the value recorded on the   *)
(* order (the price paid) and whatever the tier; no credits are charged or *)
(* refunded at delivery.  A delivery whose article names no column changes *)
(* nothing.                                                                *)
(***************************************************************************)
C21_delivery_adds_one ==
    [][pc = "step2" /\ pc' = "step3" =>
         /\ inv'["credits"] = inv["credits"]
         /\ \A f \in CARTRIDGES \cup {"juice"} :
               inv'[f] = inv[f] + DueDeliveries(orders, f, Len(orders))
         /\ (\A k \in 1..Len(orders) : orders[k].wait_weeks = 1 => ~orders[k].is_effect) =>
               \A f \in DOMAIN inv : inv'[f] = inv[f] + DueDeliveries(orders, f, Len(orders))]_vars

\* two deliveries of one article, paid 8000 and 140000, have arrived
C21_witness ==
    /\ TickDone /\ week = 1
    /\ Len(orders) = 2
    /\ orders[1].article = "juice" /\ orders[1].value = 8000 /\ orders[1].applied = 1
    /\ orders[2].article = "juice" /\ orders[2].value = 140000 /\ orders[2].applied = 1
    /\ inv["juice"] = initial_inventory["juice"] + 2
    /\ inv["credits"] = initial_inventory["credits"]

\* a delivery of an article that is no column has been dispatched
C21_witness_no_column ==
    /\ TickDone /\ week = 1
    /\ Len(orders) = 1
    /\ orders[1].article \notin DOMAIN inv /\ ~orders[1].is_effect /\ orders[1].applied = 1
    /\ inv = initial_inventory

\* an effect row that no handler can apply
Malformed(order) ==
    /\ order.is_effect
    /\ \/ order.event_type \notin {"juiz", "hunt"}
       \/ order.inventory_field = "None"
       \/ order.inventory_field \notin Inventory

\* the table without its malformed rows
WellFormed(os) == SelectSeq(os, LAMBDA order : ~Malformed(order))

(***************************************************************************)
(* C22: during maturation an effect row whose event_type is neither the    *)
(* boost aftermath nor the hunt delivery, or whose target field is null or *)
(* names no column, is dropped: it changes nothing and does not abort the  *)
(* tick, so the other rows due in the tick are applied as if it were not   *)
(* there and steps 4-5 run.  This holds for both handlers.                 *)
(***************************************************************************)
C22_malformed_effect_dropped ==
    [][pc = "step2" =>
         /\ pc' = "step3"
         /\ inv' = mature(inv, WellFormed(orders), 1, week + 1).inv]_vars

\* the experiment_type each booking function logs
BookingOps ==
    {"DGE Analysis", "Viral Vector Modification", "Visual Acquisition", "Resonance Tomography",
     "Directed Circuit Trace", "Define & Monitor Behavioral Events", "Object Fabrication",
     "Compound Analysis", "Synthesize Compound"}

(***************************************************************************)
(* C23: an experiment booking that fails one of its resource checks, or    *)
(* whose confirmation prompt is answered 'no', changes nothing: cartridge  *)
(* counts, shifts, animal availability and credits stay as they were and   *)
(* no experiment record is created.  No booking deducts one resource and   *)
(* then gives up.                                                          *)
(***************************************************************************)
C23_failed_booking_changes_nothing ==
    [][/\ result'.op \in BookingOps =>
            \* a booking either goes through or leaves everything alone
            \/ /\ result'.status = "ok"
               /\ Len(experiments') = Len(experiments) + 1
            \/ /\ result'.status # "ok"
               /\ inv' = inv /\ orders' = orders /\ experiments' = experiments /\ db' = db
       /\ \A s \in BookingSpecies, n \in {2, 35}, c \in Confirm :
            (/\ result'.op = "Viral Vector Modification"
             /\ inv # NoInventory
             /\ \/ inv[available_field(s)] < n * n
                \/ inv["xatty_cartridge"] < 1
                \/ total_shifts(inv) < n
                \/ c = "n"
             /\ run_geneweaver_viral_modification(s, n, c))
            => /\ result'.status # "ok"
               /\ inv' = inv /\ experiments' = experiments /\ db' = db]_vars

\* a booking refused for want of animals
C23_witness ==
    /\ result.op = "Viral Vector Modification" /\ result.status = "animals"
    /\ inv = db.inv /\ experiments = db.experiments
    /\ inv["xatty_cartridge"] >= 1 /\ total_shifts(inv) >= 35

\* a booking whose prompt was answered 'no'
C23_witness_declined ==
    /\ result.op = "Viral Vector Modification" /\ result.status = "not booked"
    /\ inv = db.inv
    /\ experiments = <<>>

(***************************************************************************)
(* C24: every experiment booking checks each resource it deducts before it *)
(* deducts any: a booking that draws animal FTE from a species is refused  *)
(* when the species' available is below the FTE required, so no successful *)
(* booking takes a species' available (or credits, or a cartridge count)   *)
(* from a non-negative value to a negative one.                            *)
(***************************************************************************)
C24_deductions_are_checked ==
    [][/\ result'.op \in BookingOps /\ result'.status = "ok" =>
            \A f \in ANIMAL_AVAILABLE \cup CARTRIDGES \cup {"credits"} :
                inv[f] >= 0 => inv'[f] >= 0
       \* a DGE analysis that is not stopped by the checks it makes draws on
       \* animals that are there
       /\ \A s \in BookingSpecies, c \in Confirm :
            (/\ result'.op = "DGE Analysis"
             /\ inv # NoInventory
             /\ result'.status \notin {"cartridge", "animals", "shifts", "credits"}
             /\ run_geneweaver_dge_analysis(s, 10, 5000, c))
            => check_animal_required(inv, s, geneweaver_dge_plan(s, 10, 5000).animal_shifts)]_vars

(***************************************************************************)
(* C25: in every reachable state the eight cartridge counts and juice are  *)
(* at least 0: a booking that uses a cartridge requires a count of at      *)
(* least 1 and takes exactly 1 from exactly that cartridge kind, and a     *)
(* boost requires juice >= 1 and takes exactly 1 juice.                    *)
(***************************************************************************)
C25_consumables_never_negative ==
    /\ [](inv # NoInventory => \A f \in CARTRIDGES \cup {"juice"} : inv[f] >= 0)
    /\ [](db.inv # NoInventory => \A f \in CARTRIDGES \cup {"juice"} : db.inv[f] >= 0)
    /\ [][/\ result'.op \in BookingOps /\ result'.status = "ok" =>
               /\ \E f \in CARTRIDGES :
                     /\ inv[f] >= 1
                     /\ inv'[f] = inv[f] - 1
                     /\ \A g \in (CARTRIDGES \cup {"juice"}) \ {f} : inv'[g] = inv[g]
               /\ result'.op = "Viral Vector Modification" =>
                     inv'["xatty_cartridge"] = inv["xatty_cartridge"] - 1
          /\ result'.op = "administer_juiz" /\ result'.status = "ok" =>
               /\ inv["juice"] >= 1
               /\ inv'["juice"] = inv["juice"] - 1
               /\ \A g \in CARTRIDGES : inv'[g] = inv[g]]_vars

\* a booking has used the last cartridge of its kind
C25_witness ==
    /\ result.op = "Viral Vector Modification" /\ result.status = "ok"
    /\ inv["xatty_cartridge"] = 0
    /\ db.inv["xatty_cartridge"] = 0
    /\ Len(experiments) = 1

\* a booking refused with no cartridge left
C25_witness_refused ==
    /\ result.op = "Viral Vector Modification" /\ result.status = "cartridge"
    /\ inv["xatty_cartridge"] = 0
    /\ Len(experiments) = 1

\* a boost has used the last juice
C25_witness_juice ==
    /\ result.op = "administer_juiz" /\ result.status = "ok"
    /\ inv["juice"] = 0

\* the fields of a row that the program stores (the rest is history)
Stored(order) ==
    [article |-> order.article, value |-> order.value, wait_weeks |-> order.wait_weeks,
     is_effect |-> order.is_effect, inventory_field |-> order.inventory_field,
     event_type |-> order.event_type]

(***************************************************************************)
(* C26: the pending-effect table is append-only and only the tick changes  *)
(* existing rows: place-order, boost, hunt and booking never delete a row  *)
(* nor change the wait_weeks, value, event_type or target of one, and the  *)
(* tick never deletes a row and changes nothing but wait_weeks.            *)
(***************************************************************************)
C26_queue_append_only ==
    [][/\ Len(orders') >= Len(orders)
       /\ Len(db'.orders) >= Len(db.orders)
       /\ result'.op # "advance_one_week" =>
             /\ SubSeq(orders', 1, Len(orders)) = orders
             /\ Len(orders') <= Len(orders) + 1
       /\ result'.op = "advance_one_week" =>
             /\ Len(orders') = Len(orders)
             /\ \A k \in 1..Len(orders) :
                   /\ [Stored(orders'[k]) EXCEPT !.wait_weeks = 0]
                        = [Stored(orders[k]) EXCEPT !.wait_weeks = 0]
                   /\ orders'[k].wait_weeks \in {orders[k].wait_weeks, orders[k].wait_weeks - 1}]_vars

\* an order has been appended behind a row that a tick had counted down
C26_witness ==
    /\ result.op = "place_order" /\ result.status = "ok"
    /\ Len(orders) >= 2
    /\ orders[1].wait_weeks < orders[1].lead
    /\ Newest(orders).wait_weeks = Newest(orders).lead
    /\ week >= 1

(***************************************************************************)
(* C27: the tick counts down only effects that have not matured yet: once  *)
(* a row's wait_weeks has reached 0 it stays 0 in every later state, so    *)
(* wait_weeks is never negative.                                           *)
(***************************************************************************)
C27_wait_weeks_stays_zero ==
    [][\A k \in 1..Len(orders) :
          /\ orders[k].wait_weeks = 0 => orders'[k].wait_weeks = 0
          /\ orders[k].wait_weeks >= 0 => orders'[k].wait_weeks >= 0]_vars

(***************************************************************************)
(* C28: a booking with a compute component costs jobs x the per-job price  *)
(* of the catalog's OCS-job entry, jobs = ceil(unit_count / units_per_job);*)
(* with the catalog as initialize_item_catalog seeds it, a booking whose   *)
(* cartridge, shift, animal and credit checks all pass completes and       *)
(* lowers credits by exactly that cost.                                    *)
(***************************************************************************)
C28_compute_cost_charged ==
    [][/\ result'.op \in BookingOps \ {"Viral Vector Modification"} /\ inv # NoInventory =>
            \* the booking completes or is stopped by a check or the prompt
            result'.status \in {"ok", "cartridge", "animals", "shifts", "credits", "not booked"}
       \* a confirmed synthesis of a novel compound (1 unit, 1 unit per job)
       \* with a cartridge, 3 shifts and the seeded catalog
       /\ \A s \in BookingSpecies :
            (/\ result'.op = "Synthesize Compound"
             /\ inv # NoInventory /\ catalog = item_catalog
             /\ inv["dupont_cartridge"] >= 1
             /\ total_shifts(inv) >= 3
             /\ run_virgo_synthesis(s, TRUE, "y"))
            => /\ result'.status = "ok"
               /\ OCS_KEY \in DOMAIN catalog
               /\ inv'["credits"] = inv["credits"] - ceil(1, 1) * catalog[OCS_KEY].chuan_cost]_vars

(***************************************************************************)
(* C29: after every completed operation (place-order, boost, hunt,         *)
(* booking, tick), in every state reachable from the initial ledger, every *)
(* role has 0 <= shifts <= shifts_max; in particular a boost never leaves  *)
(* a role's shifts above its shifts_max and no deduction takes a role's    *)
(* shifts below 0.                                                         *)
(***************************************************************************)
C29_shifts_within_ceiling ==
    /\ [](pc = "idle" /\ inv # NoInventory =>
            \A f \in TA_SHIFTS : 0 <= inv[f] /\ inv[f] <= inv[shifts_max_field(f)])
    /\ [](db.inv # NoInventory =>
            \A f \in TA_SHIFTS : 0 <= db.inv[f] /\ db.inv[f] <= db.inv[shifts_max_field(f)])

\* a role boosted after it had paid for a hunt: 18/30 became 42/54
C29_witness ==
    /\ result = Outcome("administer_juiz", "ok", "ta_saltos_shifts", "boost")
    /\ inv["ta_saltos_shifts"] = 42
    /\ inv["ta_saltos_shifts_max"] = 54

\* a role after a fatality: 0/0
C29_witness_fatality ==
    /\ result.op = "administer_juiz" /\ result.arg = "fatality"
    /\ inv[result.target] = 0
    /\ inv[shifts_max_field(result.target)] = 0

(***************************************************************************)
(* C30: every successful experiment booking lowers the total shifts of the *)
(* four roles by exactly the booking's required shift count, the number it *)
(* reports and deducts: the shift feasibility check is made against the    *)
(* same quantity that is deducted.  This includes                          *)
(* run_polykiln_fabrication, whose required count is the base cost of the  *)
(* cartridge size plus the mechanical and the electronic tier shifts.      *)
(***************************************************************************)
C30_shifts_checked_is_deducted ==
    [][/\ \A s \in BookingSpecies, n \in {2, 35}, c \in Confirm :
            (/\ result'.op = "Viral Vector Modification" /\ result'.status = "ok"
             /\ run_geneweaver_viral_modification(s, n, c))
            => /\ total_shifts(inv) >= n
               /\ total_shifts(inv') = total_shifts(inv) - n
       \* a fabrication call: the count it holds for the check is the count
       \* it holds for the deduction
       /\ \A s \in BookingSpecies, c \in Confirm :
            (/\ result'.op = "Object Fabrication"
             /\ inv # NoInventory
             /\ run_polykiln_fabrication(s, 2, 2, 2, c))
            => polykiln_plan(s, 2, 2, 2).shifts_checked = polykiln_plan(s, 2, 2, 2).shifts_deducted]_vars

(***************************************************************************)
(* C31: renewable resources are restored only by the tick.  No place-order, *)
(* hunt or booking ever increases a role's shifts; a boost is the only     *)
(* user operation that can, and only for the role it boosts.  Whatever     *)
(* hunts and bookings consumed, the next tick writes 30 to every role's    *)
(* shifts and each species' max to its available.                          *)
(***************************************************************************)
C31_renewables_restored_by_tick ==
    /\ [][/\ result'.op \in {"place_order", "collect_animals"} \cup BookingOps /\ inv # NoInventory
             => \A f \in TA_SHIFTS : inv'[f] <= inv[f]
          /\ result'.op = "administer_juiz" /\ inv # NoInventory
             => \A f \in TA_SHIFTS :
                    inv'[f] > inv[f] => result' = Outcome("administer_juiz", "ok", f, "boost")
          /\ pc = "idle" /\ pc' = "step1"
             => \A f \in TA_SHIFTS : inv'[f] = WEEKLY_SHIFTS
          /\ pc = "step1"
             => \A s \in AnimalSpecies :
                    /\ inv'[available_field(s)] = inv[animal_max_field(s)]
                    /\ inv'[available_field(s)] >= inv[available_field(s)]]_vars
    /\ [](TickDone =>
            /\ \A f \in TA_SHIFTS :
                 \/ inv[f] = WEEKLY_SHIFTS
                 \/ \E k \in 1..Len(orders) :
                        /\ orders[k].event_type = "juiz" /\ orders[k].inventory_field = f
                        /\ orders[k].applied_tick = week
            /\ \A s \in AnimalSpecies : inv[available_field(s)] = inv[animal_max_field(s)])

\* step 2 of the tick after a booking that drew shifts and animals: the
\* committed ledger still shows what was consumed
C31_witness ==
    /\ pc = "step2"
    /\ Len(experiments) > 0
    /\ \E f \in TA_SHIFTS : db.inv[f] < WEEKLY_SHIFTS /\ inv[f] = WEEKLY_SHIFTS
    /\ \E s \in AnimalSpecies :
          /\ db.inv[available_field(s)] < db.inv[animal_max_field(s)]
          /\ inv[available_field(s)] = inv[animal_max_field(s)]

(***************************************************************************)
(* C32: for every species available <= max after every completed           *)
(* operation, in every state reachable from the initial ledger: a hunt     *)
(* with cooldown 0 raises both by the same amount, bookings only lower     *)
(* available, the tick makes them equal.                                   *)
(***************************************************************************)
C32_available_within_max ==
    /\ [](pc = "idle" /\ inv # NoInventory =>
            \A s \in AnimalSpecies : inv[available_field(s)] <= inv[animal_max_field(s)])
    /\ [](db.inv # NoInventory =>
            \A s \in AnimalSpecies : db.inv[available_field(s)] <= db.inv[animal_max_field(s)])
    /\ [][/\ result'.op = "collect_animals" /\ inv # NoInventory
             => \A s \in AnimalSpecies :
                    inv'[available_field(s)] - inv[available_field(s)]
                        = inv'[animal_max_field(s)] - inv[animal_max_field(s)]
          /\ result'.op \in BookingOps /\ inv # NoInventory
             => \A s \in AnimalSpecies :
                    /\ inv'[available_field(s)] <= inv[available_field(s)]
                    /\ inv'[animal_max_field(s)] = inv[animal_max_field(s)]]_vars

\* a booking after a hunt of the same species: max was raised by the hunt,
\* available lowered by the booking
C32_witness ==
    /\ result.op = "Viral Vector Modification" /\ result.status = "ok"
    /\ inv[animal_max_field(result.target)] > initial_inventory[animal_max_field(result.target)]
    /\ inv[available_field(result.target)] < inv[animal_max_field(result.target)]

\* a tick that delivered a hunt: both columns went up together
C32_witness_delivery ==
    /\ TickDone
    /\ \E s \in AnimalSpecies :
          /\ inv[animal_max_field(s)] > initial_inventory[animal_max_field(s)]
          /\ inv[available_field(s)] = inv[animal_max_field(s)]
          /\ \E k \in 1..Len(orders) :
                orders[k].event_type = "hunt" /\ orders[k].article = s /\ orders[k].applied = 1

(***************************************************************************)
(* C33: in every state reachable from the initial ledger each role's       *)
(* shifts_max is at most 54 (= round(30 x 1.8)), and after every completed *)
(* tick each role's shifts_max is at most 30: the raised ceiling of a      *)
(* successful boost never survives the next tick.                          *)
(***************************************************************************)
C33_ceiling_bounds ==
    /\ [](inv # NoInventory => \A f \in TA_SHIFTS : inv[shifts_max_field(f)] <= 54)
    /\ [](db.inv # NoInventory => \A f \in TA_SHIFTS : db.inv[shifts_max_field(f)] <= 54)
    /\ [](TickDone => \A f \in TA_SHIFTS : inv[shifts_max_field(f)] <= 30)
    /\ [][pc = "step4" /\ pc' = "idle" =>
            \A f \in TA_SHIFTS :
                /\ db'.inv[shifts_max_field(f)] <= 30
                /\ db.inv[shifts_max_field(f)] > 30 => db'.inv[shifts_max_field(f)] < db.inv[shifts_max_field(f)]]_vars

\* a boosted role at the ceiling 54
C33_witness ==
    /\ result = Outcome("administer_juiz", "ok", "ta_nitro_shifts", "boost")
    /\ inv["ta_nitro_shifts_max"] = 54
    /\ db.inv["ta_nitro_shifts_max"] = 54

\* the tick after that boost: the ceiling is back under 30
C33_witness_tick ==
    /\ TickDone
    /\ inv["ta_nitro_shifts_max"] = 16
    /\ inv["ta_nitro_risk"] = 10
    /\ \E k \in 1..Len(orders) :
          /\ orders[k].event_type = "juiz" /\ orders[k].inventory_field = "ta_nitro_shifts"
          /\ orders[k].applied_tick = week

\* the role has a boost on record since the last tick: its aftermath is
\* still one tick away
BoostedThisWeek(os, f) ==
    \E k \in 1..Len(os) :
        /\ os[k].event_type = "juiz" /\ os[k].inventory_field = f
        /\ os[k].wait_weeks = 1 /\ os[k].applied = 0

(***************************************************************************)
(* C34: between two consecutive ticks each role can be boosted at most     *)
(* once: after any boost (success or fatality) every further boost of the  *)
(* same role is rejected, the role being ineligible, until the next tick   *)
(* has run.                                                                *)
(***************************************************************************)
C34_one_boost_per_tick ==
    /\ [](pc = "idle" /\ inv # NoInventory =>
            \A f \in TA_SHIFTS :
                BoostedThisWeek(orders, f) =>
                    ~(0 < inv[shifts_max_field(f)] /\ inv[shifts_max_field(f)] <= 30))
    /\ [](\A f \in TA_SHIFTS :
            Cardinality({k \in 1..Len(orders) :
                            /\ orders[k].event_type = "juiz" /\ orders[k].inventory_field = f
                            /\ orders[k].wait_weeks = 1 /\ orders[k].applied = 0}) <= 1)
    /\ [][result'.op = "administer_juiz" =>
            \A f \in TA_SHIFTS :
                (result'.target = f /\ BoostedThisWeek(orders, f))
                => /\ result'.status # "ok"
                   /\ inv' = inv /\ orders' = orders /\ db' = db
                   /\ inv["juice"] >= 1 => result'.status = "ValueError: cannot be juiced"]_vars

\* the boost aftermath effects of a role that the next maturation pass applies
MaturingBoosts(os, f) ==
    {k \in 1..Len(os) :
        /\ os[k].wait_weeks = 1 /\ os[k].is_effect
        /\ os[k].event_type = "juiz" /\ os[k].inventory_field = f}

(***************************************************************************)
(* C35: if several boost-aftermath effects for the same role mature in one *)
(* tick, the result is the same as if exactly one had matured: shifts =    *)
(* round(shifts_max x 0.3) with shifts_max as it stood at the start of the *)
(* tick, independent of the order in which the effects are processed and   *)
(* of any other effects maturing in the same tick.                         *)
(***************************************************************************)
C35_aftermath_idempotent ==
    [][pc = "step2" /\ pc' = "step3" =>
         \A f \in TA_SHIFTS :
             /\ inv[shifts_max_field(f)] = db.inv[shifts_max_field(f)]
             /\ inv'[shifts_max_field(f)] = inv[shifts_max_field(f)]
             /\ IF MaturingBoosts(orders, f) = {}
                THEN inv'[f] = inv[f]
                ELSE /\ inv'[f] = round(db.inv[shifts_max_field(f)] * 3, 10)
                     /\ \A k \in MaturingBoosts(orders, f) :
                            inv'[f] = handle_juiz_event(orders[k], inv).inv[f]]_vars

\* two aftermath effects of one role applied by the same maturation pass:
\* the role is at round(52 x 0.3) = 16
C35_witness ==
    /\ pc = "step3"
    /\ \E f \in TA_SHIFTS :
          /\ Cardinality({k \in 1..Len(orders) :
                            /\ orders[k].event_type = "juiz" /\ orders[k].inventory_field = f
                            /\ orders[k].applied = 1 /\ orders[k].applied_tick = week + 1}) >= 2
          /\ inv[shifts_max_field(f)] = 52
          /\ inv[f] = 16

\* the rows of os that tick t applied: plain deliveries for a column, and
\* effects of one event type for a column
PlainApplied(os, field, t) ==
    {k \in 1..Len(os) :
        ~os[k].is_effect /\ os[k].article = field /\ os[k].applied = 1 /\ os[k].applied_tick = t}

EffectApplied(os, event_type, field, t) ==
    {k \in 1..Len(os) :
        /\ os[k].is_effect /\ os[k].event_type = event_type /\ os[k].inventory_field = field
        /\ os[k].applied = 1 /\ os[k].applied_tick = t}

(***************************************************************************)
(* C36: a tick leaves credits, all four risk values and every role,        *)
(* species and cartridge field not targeted by an effect maturing in that  *)
(* tick at the values fixed by steps 1, 2, 4 and 5: credits and risk are   *)
(* never changed by a tick, a cartridge count or juice changes only by +1  *)
(* per plain delivery maturing for it, and a species with no hunt delivery *)
(* maturing keeps its max across the tick.                                 *)
(***************************************************************************)
C36_tick_frame ==
    [][/\ result'.op = "advance_one_week" /\ inv # NoInventory =>
            /\ inv'["credits"] = inv["credits"]
            /\ \A f \in TA_RISK : inv'[f] = inv[f]
       \* the commit of the tick against the ledger committed before it
       /\ pc = "step4" /\ pc' = "idle" =>
            /\ db'.inv["credits"] = db.inv["credits"]
            /\ \A f \in TA_RISK : db'.inv[f] = db.inv[f]
            /\ \A f \in CARTRIDGES \cup {"juice"} :
                  db'.inv[f] = db.inv[f] + Cardinality(PlainApplied(orders', f, week'))
            /\ \A s \in AnimalSpecies :
                  EffectApplied(orders', "hunt", available_field(s), week') = {} =>
                     /\ db'.inv[animal_max_field(s)] = db.inv[animal_max_field(s)]
                     /\ db'.inv[available_field(s)] = db.inv[animal_max_field(s)]
            /\ \A f \in TA_SHIFTS :
                  EffectApplied(orders', "juiz", f, week') = {} =>
                     /\ db'.inv[f] = WEEKLY_SHIFTS
                     /\ db'.inv[shifts_max_field(f)] = WEEKLY_SHIFTS]_vars

\* a tick that delivered one cartridge: that count is up by one, juice and
\* the credits are what they were
C36_witness ==
    /\ TickDone
    /\ \E k \in PlainApplied(orders, "xatty_cartridge", week) :
          inv["credits"] = initial_inventory["credits"] - orders[k].value
    /\ inv["xatty_cartridge"] = initial_inventory["xatty_cartridge"] + 1
    /\ inv["juice"] = initial_inventory["juice"]
    /\ \A f \in TA_RISK : inv[f] = 0

(***************************************************************************)
(* C37: each species' max never decreases over any sequence of operations: *)
(* bookings do not touch max, hunting only adds a positive yield, and a    *)
(* tick's re-derivation sets max to the old max plus the matured           *)
(* deliveries, which is never below the old max.                           *)
(***************************************************************************)
C37_animal_max_never_decreases ==
    [][/\ inv # NoInventory /\ inv' # NoInventory =>
            \A s \in AnimalSpecies : inv'[animal_max_field(s)] >= inv[animal_max_field(s)]
       /\ db.inv # NoInventory /\ db'.inv # NoInventory =>
            \A s \in AnimalSpecies : db'.inv[animal_max_field(s)] >= db.inv[animal_max_field(s)]
       /\ result'.op \in BookingOps /\ inv # NoInventory =>
            \A s \in AnimalSpecies : inv'[animal_max_field(s)] = inv[animal_max_field(s)]
       /\ result'.op = "collect_animals" /\ result'.status = "ok" =>
            /\ result'.arg >= 0
            /\ \A s \in AnimalSpecies :
                  inv'[animal_max_field(s)] =
                     inv[animal_max_field(s)]
                       + IF s = result'.target /\ HUNTING_RULES[s].cooldown = 0
                         THEN result'.arg * FTE_SHIFTS ELSE 0
       /\ pc = "step4" /\ pc' = "idle" =>
            \A s \in AnimalSpecies :
                /\ \A k \in EffectApplied(orders', "hunt", available_field(s), week') : orders'[k].value > 0
                /\ EffectApplied(orders', "hunt", available_field(s), week') # {} =>
                      db'.inv[animal_max_field(s)] > db.inv[animal_max_field(s)]]_vars

\* after a hunt, a booking on the hunted species and a tick: the ceiling is
\* still the one the hunt left
C37_witness ==
    /\ TickDone
    /\ Len(experiments) > 0
    /\ experiments[1].subject_species = "animals_51u6"
    /\ inv["animals_51u6_max"] > initial_inventory["animals_51u6_max"]
    /\ inv["animals_51u6_available"] = inv["animals_51u6_max"]

\* no row of os reached wait_weeks 0 in the maturation pass just made (a row
\* that had matured earlier was taken from 0 to -1 by it)
NothingMatured(os) == \A k \in 1..Len(os) : os[k].wait_weeks # 0

\* the ledger as a tick without maturing effects leaves it
Rested(i) ==
    /\ \A f \in TA_SHIFTS : i[f] = WEEKLY_SHIFTS /\ i[shifts_max_field(f)] = WEEKLY_SHIFTS
    /\ \A s \in AnimalSpecies : i[available_field(s)] = i[animal_max_field(s)]

(***************************************************************************)
(* C38: a tick in which no pending effect matures brings every role to     *)
(* shifts = shifts_max = 30 and every species to available = max, max      *)
(* unchanged; a second tick with still nothing maturing leaves the ledger  *)
(* identical: the tick is idempotent on a ledger with no pending effects.  *)
(***************************************************************************)
C38_quiet_tick_idempotent ==
    [][pc = "step4" /\ pc' = "idle" /\ NothingMatured(orders') =>
         /\ Rested(db'.inv)
         /\ \A f \in Inventory \ (TA_SHIFTS \cup TA_MAX \cup ANIMAL_AVAILABLE) : db'.inv[f] = db.inv[f]
         /\ Rested(db.inv) => db'.inv = db.inv]_vars

\* the first quiet tick after a boost's aftermath: the role is back from 16
\* to 30 of 30
C38_witness ==
    /\ TickDone
    /\ week >= 2
    /\ NothingMatured(orders)
    /\ inv = db.inv
    /\ Rested(inv)
    /\ \E f \in TA_SHIFTS :
          /\ inv[risk_field(f)] > 0
          /\ EffectApplied(orders, "juiz", f, week - 1) # {}

\* a second quiet tick in a row
C38_witness_second ==
    /\ TickDone
    /\ week >= 2
    /\ NothingMatured(orders)
    /\ \A k \in 1..Len(orders) : orders[k].applied = 1 => orders[k].applied_tick < week - 1
    /\ inv = db.inv
    /\ Rested(inv)
    /\ inv["animals_51u6_max"] > initial_inventory["animals_51u6_max"]

====
